---------------------------- MODULE Spec2Model ----------------------------
(* State-machine model of the persistence layer of src/pro.py:              *)
(* DatabaseManager (connection gateway, query executor, schema migrator,    *)
(* repositories).                                                           *)
EXTENDS Integers, Sequences, FiniteSets, TLC

VARIABLES
    db,      \* the committed content of the database file
    mgr,     \* the shared DatabaseManager's handle fields: conn, cursor
    conns,   \* every sqlite3 connection object created so far, by id
    thr,     \* per thread: the activation record of its executor call
    schema,  \* init_db's view of the file: table name -> set of column names
    rows,    \* table name -> set of rows (column name -> value)
    mig,     \* the activation record of init_db
    rdb,     \* repository level: the database content
    last,    \* repository level: the last repository call and what it returned
    now,     \* the system clock the repositories and the store read
    app      \* the application: the controller's fields, the globals, the pages

vars == <<db, mgr, conns, thr, schema, rows, mig, rdb, last, now, app>>

(* ---------------------------------------------------------------------- *)
(* Threads, users and passwords                                            *)
(* ---------------------------------------------------------------------- *)
Threads == {"main", "bg"}

Usernames == {"alice", "bob"}

Passwords == {"secret1", "wrong"}

\* hashlib.sha256(password.encode()).hexdigest(): a deterministic digest
DigestOfNothing(p) == <<"sha256", "">>

Sha256(p) == <<"sha256", p>>

(* ---------------------------------------------------------------------- *)
(* The database content the executor's statements act on                   *)
(* ---------------------------------------------------------------------- *)
\* users: user_id -> [username, password_hash]; useq: AUTOINCREMENT's
\* sqlite_sequence for users; cats: task_categories rows; cseq likewise;
\* config: the config rows; tasks: task_id -> row (created_at is the
\* store's CURRENT_TIMESTAMP), tseq its sqlite_sequence;
\* chat: the ai_chat_history rows in message_id order; quiz: attempt_id -> row;
\* logs: the study_logs rows in log_id order; content: the
\* ai_generated_content rows in content_id order
EmptyDb == [users |-> <<>>, useq |-> 0, cats |-> {}, cseq |-> 0, config |-> {},
            tasks |-> <<>>, tseq |-> 0, chat |-> <<>>, quiz |-> <<>>,
            logs |-> <<>>, content |-> <<>>]

UserIds(d) == DOMAIN d.users

\* The statements the executor is handed in this model
InsertUser(u, p) == [k |-> "insert_user", u |-> u, h |-> Sha256(p), uid |-> 0, name |-> ""]

InsertCategory(uid, name) == [k |-> "insert_category", u |-> "", h |-> <<>>, uid |-> uid, name |-> name]

SelectUser(u, p) == [k |-> "select_user", u |-> u, h |-> Sha256(p), uid |-> 0, name |-> ""]

SelectConfig(key) == [k |-> "select_config", u |-> key, h |-> <<>>, uid |-> 0, name |-> ""]

Malformed == [k |-> "malformed", u |-> "", h |-> <<>>, uid |-> 0, name |-> ""]

\* A NULL column value (None)
Null == <<"NULL">>

IsWrite(q) == q.k \notin {"select_user", "select_config", "malformed"}

\* sqlite's answer to one statement on content d: ok = FALSE is an
\* sqlite3.Error (constraint violation, malformed statement); lastrowid and
\* the result set are the cursor's after the statement. A user_id of None is
\* 0 here (AUTOINCREMENT ids start at 1): user_id INTEGER NOT NULL rejects it,
\* and with foreign_keys ON so is a user_id no users row has.
RunStatement(d, q, fk) ==
    CASE q.k = "insert_user" ->
           IF \E i \in UserIds(d) : d.users[i].username = q.u
           THEN [ok |-> FALSE, db |-> d, lastrowid |-> 0, set |-> <<>>]
           ELSE LET id == d.useq + 1 IN
                [ok |-> TRUE,
                 db |-> [d EXCEPT !.users = [i \in UserIds(d) \cup {id} |->
                                               IF i = id
                                               THEN [username |-> q.u, password_hash |-> q.h]
                                               ELSE d.users[i]],
                                  !.useq = id],
                 lastrowid |-> id, set |-> <<>>]
      [] q.k = "insert_category" ->
           IF q.uid = 0 \/ (fk /\ q.uid \notin UserIds(d))
           THEN [ok |-> FALSE, db |-> d, lastrowid |-> 0, set |-> <<>>]
           ELSE IF \E c \in d.cats : c.user_id = q.uid /\ c.name = q.name
           THEN [ok |-> TRUE, db |-> d, lastrowid |-> 0, set |-> <<>>]
           ELSE [ok |-> TRUE,
                 db |-> [d EXCEPT !.cats = @ \cup {[user_id |-> q.uid, name |-> q.name]},
                                  !.cseq = @ + 1],
                 lastrowid |-> d.cseq + 1, set |-> <<>>]
      [] q.k = "select_user" ->
           LET hit == {i \in UserIds(d) : d.users[i].username = q.u
                                          /\ d.users[i].password_hash = q.h}
               id == CHOOSE i \in hit : TRUE
           IN [ok |-> TRUE, db |-> d, lastrowid |-> 0,
               set |-> IF hit = {} THEN <<>> ELSE << <<id, q.u>> >>]
      [] q.k = "select_config" ->
           [ok |-> TRUE, db |-> d, lastrowid |-> 0,
            set |-> LET hit == {r \in d.config : r.key = q.u}
                    IN IF hit = {} THEN <<>> ELSE << <<(CHOOSE r \in hit : TRUE).value>> >>]
      [] q.k = "update_tasks_category" ->
           [ok |-> TRUE,
            db |-> [d EXCEPT !.tasks = [i \in DOMAIN d.tasks |->
                       IF d.tasks[i].user_id = q.uid /\ d.tasks[i].category = q.name
                       THEN [d.tasks[i] EXCEPT !.category = "General"]
                       ELSE d.tasks[i]]],
            lastrowid |-> 0, set |-> <<>>]
      [] q.k = "delete_category" ->
           [ok |-> TRUE,
            db |-> [d EXCEPT !.cats = @ \ {[user_id |-> q.uid, name |-> q.name]}],
            lastrowid |-> 0, set |-> <<>>]
      [] q.k = "insert_task" ->
           IF q.uid = 0 \/ (fk /\ q.uid \notin UserIds(d))
           THEN [ok |-> FALSE, db |-> d, lastrowid |-> 0, set |-> <<>>]
           ELSE LET id == d.tseq + 1 IN
                [ok |-> TRUE,
                 db |-> [d EXCEPT !.tasks = [i \in DOMAIN d.tasks \cup {id} |->
                                               IF i = id
                                               THEN [user_id |-> q.uid, category |-> q.name,
                                                     due_date |-> q.due, completed |-> 0,
                                                     description |-> q.description,
                                                     created_at |-> q.now]
                                               ELSE d.tasks[i]],
                                  !.tseq = id],
                 lastrowid |-> id, set |-> <<>>]
      [] q.k = "update_task_status" ->
           [ok |-> TRUE,
            db |-> [d EXCEPT !.tasks = [i \in DOMAIN d.tasks |->
                       IF i = q.tid THEN [d.tasks[i] EXCEPT !.completed = q.completed]
                       ELSE d.tasks[i]]],
            lastrowid |-> 0, set |-> <<>>]
      [] q.k = "delete_task" ->
           [ok |-> TRUE,
            db |-> [d EXCEPT !.tasks = [i \in DOMAIN d.tasks \ {q.tid} |-> d.tasks[i]]],
            lastrowid |-> 0, set |-> <<>>]
      [] q.k = "insert_chat" ->
           IF q.uid = 0 \/ (fk /\ q.uid \notin UserIds(d))
           THEN [ok |-> FALSE, db |-> d, lastrowid |-> 0, set |-> <<>>]
           ELSE [ok |-> TRUE,
                 db |-> [d EXCEPT !.chat = Append(@, [user_id |-> q.uid, role |-> q.role,
                                                      content |-> q.content,
                                                      timestamp |-> q.now])],
                 lastrowid |-> Len(d.chat) + 1, set |-> <<>>]
      [] q.k = "insert_quiz" ->
           IF q.uid = 0 \/ (fk /\ q.uid \notin UserIds(d))
           THEN [ok |-> FALSE, db |-> d, lastrowid |-> 0, set |-> <<>>]
           ELSE LET id == Len(d.quiz) + 1 IN
                [ok |-> TRUE,
                 db |-> [d EXCEPT !.quiz = Append(@, [user_id |-> q.uid, topic |-> q.topic,
                                                      questions_data |-> q.text])],
                 lastrowid |-> id, set |-> <<>>]
      [] q.k = "insert_log" ->
           IF q.uid = 0 \/ (fk /\ q.uid \notin UserIds(d))
           THEN [ok |-> FALSE, db |-> d, lastrowid |-> 0, set |-> <<>>]
           ELSE [ok |-> TRUE,
                 db |-> [d EXCEPT !.logs = Append(@, [user_id |-> q.uid,
                                                      start_time |-> q.start_time])],
                 lastrowid |-> Len(d.logs) + 1, set |-> <<>>]
      [] q.k = "insert_content" ->
           IF q.uid = 0 \/ (fk /\ q.uid \notin UserIds(d))
           THEN [ok |-> FALSE, db |-> d, lastrowid |-> 0, set |-> <<>>]
           ELSE [ok |-> TRUE,
                 db |-> [d EXCEPT !.content = Append(@, [user_id |-> q.uid])],
                 lastrowid |-> Len(d.content) + 1, set |-> <<>>]
      [] q.k = "upsert_config" ->
           [ok |-> TRUE,
            db |-> [d EXCEPT !.config = {r \in @ : r.key # q.key}
                                          \cup {[key |-> q.key, value |-> q.value]}],
            lastrowid |-> 1, set |-> <<>>]
      [] OTHER -> [ok |-> FALSE, db |-> d, lastrowid |-> 0, set |-> <<>>]


(* ---------------------------------------------------------------------- *)
(* Connection gateway and query executor, one step per shared-field access  *)
(* ---------------------------------------------------------------------- *)
execVars == <<db, mgr, conns, thr>>

migVars == <<schema, rows, mig>>

repoVars == <<rdb, last, now, app>>

\* self.conn / self.cursor = None
NoHandle == 0

NoResult == [kind |-> "none", cur |-> 0, val |-> <<>>]

NoTx == [has |-> FALSE, db |-> EmptyDb]

\* A thread outside the executor. Beside the program counter and the call's
\* arguments: tmp is the value of self.conn.cursor() before it is stored, exc
\* the exception in flight, res the value being returned. pre, err, opens,
\* mine, usedOwn, closedOwn record what the call has done so far.
IdleThread == [pc |-> "idle", op |-> "", q |-> Malformed, tmp |-> NoHandle,
               exc |-> "none", res |-> NoResult,
               pre |-> EmptyDb, err |-> FALSE, opens |-> 0, mine |-> NoHandle,
               usedOwn |-> FALSE, closedOwn |-> FALSE, ran |-> FALSE]

\* What a method call on handle v made by thread t does: a call on None is an
\* AttributeError, which no "except sqlite3.Error" catches; a call on an
\* object created in another thread (check_same_thread) or on a closed
\* connection is an sqlite3.ProgrammingError.
Access(t, v) ==
    IF v = NoHandle THEN "other"
    ELSE IF conns[v].owner # t \/ ~conns[v].open THEN "sqlite"
    ELSE "ok"

\* An exception of the given kind raised inside the try block
Throw(t, kind) ==
    IF kind = "sqlite"
    THEN [thr[t] EXCEPT !.pc = "except", !.err = TRUE]
    ELSE [thr[t] EXCEPT !.pc = "close_test", !.exc = "other"]

\* Reference counting: a connection nothing refers to (a cursor keeps its
\* connection alive) is deallocated, which closes it and rolls its
\* transaction back
Collect(cs, m, th) ==
    LET Refs == ({m.conn, m.cursor} \cup {th[t].tmp : t \in Threads}
                    \cup {th[t].res.cur : t \in Threads}) \ {NoHandle}
    IN [i \in (DOMAIN cs) \cap Refs |-> cs[i]]

\* The state after a step that leaves the fields m, the objects cs and the
\* threads th
Becomes(m, cs, th) ==
    /\ mgr' = m
    /\ thr' = th
    /\ conns' = Collect(cs, m, th)
    /\ UNCHANGED <<migVars, repoVars>>

NewId == CHOOSE i \in 1..(Cardinality(DOMAIN conns) + 1) :
            /\ i \notin DOMAIN conns
            /\ \A j \in 1..(i - 1) : j \in DOMAIN conns

\* The executor calls a thread makes, each an operation and its statement.
\* Main thread: add_user, add_task_category, check_user (and a statement
\* sqlite rejects); background thread: get_config_value('GEMINI_API_KEY')
CallsOf(t) ==
    IF t = "main"
    THEN {<<"execute_query", InsertUser(u, "secret1")>> : u \in Usernames}
         \cup {<<"execute_query", InsertCategory(uid, "General")>> : uid \in 1..2}
         \cup {<<"fetch_one", SelectUser("alice", p)>> : p \in Passwords}
         \cup {<<"execute_query", Malformed>>, <<"fetch_all", Malformed>>,
               <<"fetch_all", SelectUser("alice", "secret1")>>}
    ELSE {<<"fetch_one", SelectConfig("GEMINI_API_KEY")>>}

\* The calls that overlap in the concurrent runs: RegisterPage.register's
\* add_user and a fetch_all on the main thread, _get_ai_quote's
\* get_config_value on the background thread
ConcCallsOf(t) ==
    IF t = "main"
    THEN {<<"execute_query", InsertUser("bob", "secret1")>>,
          <<"fetch_all", SelectUser("alice", "secret1")>>}
    ELSE {<<"fetch_one", SelectConfig("GEMINI_API_KEY")>>}

\* execute_query / fetch_one / fetch_all is entered
Call(t, op, q) ==
    /\ thr[t].pc = "idle"
    /\ Becomes(mgr, conns,
               [thr EXCEPT ![t] = [IdleThread EXCEPT !.pc = "connect", !.op = op,
                                                     !.q = q, !.pre = db]])
    /\ UNCHANGED db

\* connect(): self.conn = sqlite3.connect(...)
Connect(t) ==
    /\ thr[t].pc = "connect"
    /\ \E fault \in BOOLEAN :
         IF fault
         THEN Becomes(mgr, conns,
                      [thr EXCEPT ![t] = [Throw(t, "sqlite") EXCEPT !.opens = @ + 1]])
         ELSE Becomes([mgr EXCEPT !.conn = NewId],
                      [i \in DOMAIN conns \cup {NewId} |->
                          IF i = NewId THEN [owner |-> t, open |-> TRUE, tx |-> NoTx, fk |-> FALSE, lastrowid |-> 0, set |-> <<>>] ELSE conns[i]],
                      [thr EXCEPT ![t].pc = "cursor_read", ![t].opens = @ + 1,
                                  ![t].mine = NewId])
    /\ UNCHANGED db

\* connect(): the right-hand side of self.cursor = self.conn.cursor()
CursorRead(t) ==
    /\ thr[t].pc = "cursor_read"
    /\ Becomes(mgr, conns,
               [thr EXCEPT ![t] =
                  IF Access(t, mgr.conn) = "ok"
                  THEN [thr[t] EXCEPT !.pc = "cursor_write", !.tmp = mgr.conn]
                  ELSE Throw(t, Access(t, mgr.conn))])
    /\ UNCHANGED db

\* connect(): the assignment to self.cursor
CursorWrite(t) ==
    /\ thr[t].pc = "cursor_write"
    /\ Becomes([mgr EXCEPT !.cursor = thr[t].tmp], conns,
               [thr EXCEPT ![t].pc = "pragma", ![t].tmp = NoHandle])
    /\ UNCHANGED db

\* connect(): self.cursor.execute("PRAGMA foreign_keys = ON;")
PragmaNotIssued(t) ==
    /\ thr[t].pc = "pragma"
    /\ Becomes(mgr, conns, [thr EXCEPT ![t].pc = "exec"])
    /\ UNCHANGED db

Pragma(t) ==
    /\ thr[t].pc = "pragma"
    /\ \E fault \in BOOLEAN :
         IF Access(t, mgr.cursor) # "ok"
         THEN Becomes(mgr, conns, [thr EXCEPT ![t] = Throw(t, Access(t, mgr.cursor))])
         ELSE IF fault
         THEN Becomes(mgr, conns, [thr EXCEPT ![t] = Throw(t, "sqlite")])
         ELSE Becomes(mgr, [conns EXCEPT ![mgr.cursor].fk = TRUE],
                      [thr EXCEPT ![t].pc = "exec"])
    /\ UNCHANGED db

\* self.cursor.execute(query, params): a statement that changes rows opens
\* the connection's transaction
Exec(t) ==
    /\ thr[t].pc = "exec"
    /\ \E fault \in BOOLEAN :
         IF Access(t, mgr.cursor) # "ok"
         THEN Becomes(mgr, conns, [thr EXCEPT ![t] = Throw(t, Access(t, mgr.cursor))])
         ELSE LET c == mgr.cursor
                  r == RunStatement(db, thr[t].q, conns[c].fk)
              IN IF fault \/ ~r.ok \/ (IsWrite(thr[t].q) /\ ~(\A i \in DOMAIN conns : i # c => ~conns[i].tx.has))
                 THEN Becomes(mgr, conns, [thr EXCEPT ![t] = Throw(t, "sqlite")])
                 ELSE Becomes(mgr,
                              [conns EXCEPT
                                 ![c].tx = IF IsWrite(thr[t].q)
                                           THEN [has |-> TRUE, db |-> r.db] ELSE @,
                                 ![c].lastrowid = r.lastrowid,
                                 ![c].set = r.set],
                              [thr EXCEPT
                                 ![t].pc = IF thr[t].op = "execute_query"
                                           THEN "commit" ELSE "fetch",
                                 ![t].ran = TRUE,
                                 ![t].usedOwn = (c = thr[t].mine)])
    /\ UNCHANGED db

\* execute_query: self.conn.commit()
Commit(t) ==
    /\ thr[t].pc = "commit"
    /\ \E fault \in BOOLEAN :
         IF Access(t, mgr.conn) # "ok"
         THEN /\ Becomes(mgr, conns, [thr EXCEPT ![t] = Throw(t, Access(t, mgr.conn))])
              /\ UNCHANGED db
         ELSE IF fault
         THEN /\ Becomes(mgr, conns, [thr EXCEPT ![t] = Throw(t, "sqlite")])
              /\ UNCHANGED db
         ELSE /\ db' = IF conns[mgr.conn].tx.has THEN conns[mgr.conn].tx.db ELSE db
              /\ Becomes(mgr, [conns EXCEPT ![mgr.conn].tx = NoTx],
                         [thr EXCEPT ![t].pc = "ret"])

\* execute_query: return self.cursor
Ret(t) ==
    /\ thr[t].pc = "ret"
    /\ Becomes(mgr, conns,
               [thr EXCEPT ![t].pc = "close_test",
                           ![t].res = IF mgr.cursor = NoHandle THEN NoResult
                                      ELSE [kind |-> "cursor", cur |-> mgr.cursor,
                                            val |-> <<>>]])
    /\ UNCHANGED db

\* fetch_one / fetch_all: return self.cursor.fetchone() / fetchall()
Fetch(t) ==
    /\ thr[t].pc = "fetch"
    /\ Becomes(mgr, conns,
               [thr EXCEPT ![t] =
                  IF Access(t, mgr.cursor) # "ok"
                  THEN Throw(t, Access(t, mgr.cursor))
                  ELSE LET set == conns[mgr.cursor].set IN
                       [thr[t] EXCEPT
                          !.pc = "close_test",
                          !.res = IF thr[t].op = "fetch_all"
                                  THEN [kind |-> "rows", cur |-> 0, val |-> set]
                                  ELSE IF set = <<>> THEN NoResult
                                  ELSE [kind |-> "row", cur |-> 0, val |-> Head(set)]]])
    /\ UNCHANGED db

\* Except with the handler returning the cursor instead of None
ExceptReturnsCursor(t) ==
    /\ thr[t].pc = "except"
    /\ Becomes(mgr, conns,
               [thr EXCEPT ![t].pc = "close_test",
                           ![t].res = [kind |-> "cursor", cur |-> mgr.cursor,
                                       val |-> <<>>]])
    /\ UNCHANGED db

\* except sqlite3.Error: print(...); return None
Except(t) ==
    /\ thr[t].pc = "except"
    /\ Becomes(mgr, conns, [thr EXCEPT ![t].pc = "close_test", ![t].res = NoResult])
    /\ UNCHANGED db

\* finally: close(): if self.conn:
CloseTest(t) ==
    /\ thr[t].pc = "close_test"
    /\ Becomes(mgr, conns,
               [thr EXCEPT ![t].pc = IF mgr.conn = NoHandle THEN "return"
                                     ELSE "close_call"])
    /\ UNCHANGED db

\* close(): self.conn.close(); raising here is raising out of the finally block
CloseCall(t) ==
    /\ thr[t].pc = "close_call"
    /\ IF mgr.conn = NoHandle
       THEN Becomes(mgr, conns, [thr EXCEPT ![t].pc = "return", ![t].exc = "other"])
       ELSE IF conns[mgr.conn].owner # t
       THEN Becomes(mgr, conns, [thr EXCEPT ![t].pc = "return", ![t].exc = "sqlite"])
       ELSE Becomes(mgr,
                    [conns EXCEPT ![mgr.conn].open = FALSE, ![mgr.conn].tx = NoTx],
                    [thr EXCEPT ![t].pc = "close_setconn",
                                ![t].closedOwn = (mgr.conn = thr[t].mine)])
    /\ UNCHANGED db

\* CloseSetConn with the reset of self.conn left out
CloseKeepsConn(t) ==
    /\ thr[t].pc = "close_setconn"
    /\ Becomes(mgr, conns, [thr EXCEPT ![t].pc = "close_setcur"])
    /\ UNCHANGED db

\* close(): self.conn = None
CloseSetConn(t) ==
    /\ thr[t].pc = "close_setconn"
    /\ Becomes([mgr EXCEPT !.conn = NoHandle], conns,
               [thr EXCEPT ![t].pc = "close_setcur"])
    /\ UNCHANGED db

\* close(): self.cursor = None
CloseSetCur(t) ==
    /\ thr[t].pc = "close_setcur"
    /\ Becomes([mgr EXCEPT !.cursor = NoHandle], conns,
               [thr EXCEPT ![t].pc = "return"])
    /\ UNCHANGED db

\* The call leaves the executor, with thr[t].res or, when thr[t].exc is set,
\* with the exception that no handler caught; the caller drops the result
Return(t) ==
    /\ thr[t].pc = "return"
    /\ Becomes(mgr, conns, [thr EXCEPT ![t] = IdleThread])
    /\ UNCHANGED db

\* __init__: conn = None, cursor = None
NotConnected == [conn |-> NoHandle, cursor |-> NoHandle]

ParkedMig == [pc |-> "off"]

ParkedRepo == [op |-> "none"]

InitExec ==
    /\ db \in {EmptyDb,
                [RunStatement(EmptyDb, InsertUser("alice", "secret1"), TRUE).db
                   EXCEPT !.config = {[key |-> "GEMINI_API_KEY", value |-> "key1"]}]}
    /\ mgr = NotConnected
    /\ conns = <<>>
    /\ thr = [t \in Threads |-> IdleThread]
    /\ schema = <<>>
    /\ rows = <<>>
    /\ mig = ParkedMig
    /\ rdb = EmptyDb
    /\ last = ParkedRepo
    /\ now = 0
    /\ app = <<>>

\* The thread's turn when executor calls never overlap
Alone(t) == thr[IF t = "main" THEN "bg" ELSE "main"].pc = "idle"

\* Executor calls that never overlap: a thread steps only while the other is
\* outside the executor
NextSeq ==
    \/ \E t \in Threads : \E c \in CallsOf(t) : Alone(t) /\ Call(t, c[1], c[2])
    \/ \E t \in Threads : Alone(t) /\ Connect(t)
    \/ \E t \in Threads : Alone(t) /\ CursorRead(t)
    \/ \E t \in Threads : Alone(t) /\ CursorWrite(t)
    \/ \E t \in Threads : Alone(t) /\ Pragma(t)
    \/ \E t \in Threads : Alone(t) /\ Exec(t)
    \/ \E t \in Threads : Alone(t) /\ Commit(t)
    \/ \E t \in Threads : Alone(t) /\ Ret(t)
    \/ \E t \in Threads : Alone(t) /\ Fetch(t)
    \/ \E t \in Threads : Alone(t) /\ Except(t)
    \/ \E t \in Threads : Alone(t) /\ CloseTest(t)
    \/ \E t \in Threads : Alone(t) /\ CloseCall(t)
    \/ \E t \in Threads : Alone(t) /\ CloseSetConn(t)
    \/ \E t \in Threads : Alone(t) /\ CloseSetCur(t)
    \/ \E t \in Threads : Alone(t) /\ Return(t)

SpecSeq == InitExec /\ [][NextSeq]_vars

\* A background thread and the main thread inside the executor at once
NextConc ==
    \/ \E t \in Threads : \E c \in ConcCallsOf(t) : Call(t, c[1], c[2])
    \/ \E t \in Threads : Connect(t)
    \/ \E t \in Threads : CursorRead(t)
    \/ \E t \in Threads : CursorWrite(t)
    \/ \E t \in Threads : Pragma(t)
    \/ \E t \in Threads : Exec(t)
    \/ \E t \in Threads : Commit(t)
    \/ \E t \in Threads : Ret(t)
    \/ \E t \in Threads : Fetch(t)
    \/ \E t \in Threads : Except(t)
    \/ \E t \in Threads : CloseTest(t)
    \/ \E t \in Threads : CloseCall(t)
    \/ \E t \in Threads : CloseSetConn(t)
    \/ \E t \in Threads : CloseSetCur(t)
    \/ \E t \in Threads : Return(t)

InitConc ==
    /\ InitExec
    /\ db # EmptyDb

SpecConc == InitConc /\ [][NextConc]_vars

(* ---------------------------------------------------------------------- *)
(* Schema migrator: init_db, one step per statement it executes            *)
(* ---------------------------------------------------------------------- *)
\* The CREATE TABLE IF NOT EXISTS statements, in the order of the list
Queries == <<"users", "task_categories", "tasks", "study_logs", "quiz_attempts",
             "config", "ai_generated_content", "ai_chat_history">>

\* The column set each CREATE TABLE statement declares
Columns(t) ==
    CASE t = "users" -> {"user_id", "username", "password_hash"}
      [] t = "task_categories" -> {"category_id", "user_id", "name"}
      [] t = "tasks" -> {"task_id", "user_id", "description", "category", "due_date",
                         "completed", "created_at"}
      [] t = "study_logs" -> {"log_id", "user_id", "subject", "start_time",
                              "duration_minutes", "notes"}
      [] t = "quiz_attempts" -> {"attempt_id", "user_id", "topic", "quiz_date", "score",
                                 "total_questions", "questions_data"}
      [] t = "config" -> {"key", "value"}
      [] t = "ai_generated_content" -> {"content_id", "user_id", "type", "title",
                                        "input_text", "output_text", "created_at"}
      [] OTHER -> {"message_id", "user_id", "role", "content", "timestamp"}

\* Triples with the created_at migration left out
TriplesWithoutCreatedAt ==
    << [t |-> "tasks", c |-> "category", default |-> "General"],
       [t |-> "quiz_attempts", c |-> "questions_data", default |-> "NULL"] >>

\* The _try_add_column calls of init_db: table, column, the value existing
\* rows get for the added column
Triples ==
    << [t |-> "tasks", c |-> "category", default |-> "General"],
       [t |-> "tasks", c |-> "created_at", default |-> "NULL"],
       [t |-> "quiz_attempts", c |-> "questions_data", default |-> "NULL"] >>

\* _table_exists: a row of sqlite_master with that name
TableExists(t) == t \in DOMAIN schema

\* ALTER TABLE t ADD COLUMN c: every existing row reads the default
AddColumn(t, c, default) ==
    /\ schema' = [schema EXCEPT ![t] = @ \cup {c}]
    /\ rows' = [rows EXCEPT ![t] =
                  {[x \in schema[t] \cup {c} |-> IF x = c THEN default ELSE r[x]] : r \in @}]

\* init_db not running. i and k index Triples and Queries, made is
\* made_schema_changes, prev is what the run before left. The other fields
\* record the run so far: raised (an exception left init_db), err1 and err2
\* (the except clause of phase 1, of phase 2 ran), faulted (the store
\* answered some statement with an error other than "duplicate column"),
\* failedAt (the triple whose _try_add_column raised), dups (triples answered
\* "duplicate column"), tried (triples whose _try_add_column was entered),
\* created (CREATE statements executed), pre (the file when the run began).
IdleMig(prev) ==
    [pc |-> "idle", i |-> 0, k |-> 0, made |-> FALSE, raised |-> FALSE,
     err1 |-> FALSE, err2 |-> FALSE, faulted |-> FALSE, failedAt |-> 0, dups |-> {},
     tried |-> {}, created |-> 0, pre |-> [schema |-> <<>>, rows |-> <<>>], prev |-> prev]

\* After the triple m.i: the next triple, or the end of phase 1
NextTriple(m) ==
    IF m.i < Len(Triples)
    THEN [m EXCEPT !.pc = "check", !.i = @ + 1]
    ELSE [m EXCEPT !.pc = IF m.made THEN "commit1" ELSE "create", !.k = 1]

\* except sqlite3.Error of phase 1: the error is printed, phase 2 follows
Abort1(m) == [m EXCEPT !.pc = "create", !.k = 1, !.err1 = TRUE, !.faulted = TRUE]

\* except sqlite3.Error of phase 2, then finally
Abort2(m) == [m EXCEPT !.pc = "close", !.err2 = TRUE, !.faulted = TRUE]

\* init_db is entered: sqlite3.connect, cursor, PRAGMA, outside any try
Start ==
    /\ mig.pc = "idle"
    /\ \E fault \in BOOLEAN :
         mig' = IF fault
                THEN [mig EXCEPT !.pc = "done", !.raised = TRUE, !.faulted = TRUE,
                                 !.pre = [schema |-> schema, rows |-> rows]]
                ELSE [mig EXCEPT !.pc = "check", !.i = 1,
                                 !.pre = [schema |-> schema, rows |-> rows]]
    /\ UNCHANGED <<schema, rows, execVars, repoVars>>

\* _try_add_column: the test "table exists and column does not"
Check ==
    /\ mig.pc = "check"
    /\ \E fault \in BOOLEAN :
         LET tr == Triples[mig.i]
             m == [mig EXCEPT !.tried = @ \cup {mig.i}]
         IN mig' = IF fault THEN Abort1([m EXCEPT !.failedAt = mig.i])
                    ELSE IF TableExists(tr.t) /\ ~(TableExists(tr.t) /\ tr.c \in schema[tr.t])
                    THEN [m EXCEPT !.pc = "alter"]
                    ELSE NextTriple(m)
    /\ UNCHANGED <<schema, rows, execVars, repoVars>>

\* Alter with "duplicate column name" re-raised like any other error
AlterDupRaises ==
    /\ mig.pc = "alter"
    /\ \E fault \in BOOLEAN :
         LET tr == Triples[mig.i] IN
         IF fault
         THEN /\ mig' = Abort1([mig EXCEPT !.failedAt = mig.i])
              /\ UNCHANGED <<schema, rows>>
         ELSE IF tr.c \in schema[tr.t]
         THEN /\ mig' = [Abort1([mig EXCEPT !.dups = @ \cup {mig.i}])
                           EXCEPT !.faulted = mig.faulted]
              /\ UNCHANGED <<schema, rows>>
         ELSE /\ AddColumn(tr.t, tr.c, tr.default)
              /\ mig' = NextTriple([mig EXCEPT !.made = TRUE])
    /\ UNCHANGED <<execVars, repoVars>>

\* Alter with no except clause around phase 1: the error leaves init_db
AlterErrorEscapes ==
    /\ mig.pc = "alter"
    /\ \E fault \in BOOLEAN :
         LET tr == Triples[mig.i] IN
         IF fault
         THEN /\ mig' = [mig EXCEPT !.pc = "done", !.raised = TRUE, !.faulted = TRUE,
                                    !.failedAt = mig.i]
              /\ UNCHANGED <<schema, rows>>
         ELSE IF tr.c \in schema[tr.t]
         THEN /\ mig' = NextTriple([mig EXCEPT !.dups = @ \cup {mig.i}])
              /\ UNCHANGED <<schema, rows>>
         ELSE /\ AddColumn(tr.t, tr.c, tr.default)
              /\ mig' = NextTriple([mig EXCEPT !.made = TRUE])
    /\ UNCHANGED <<execVars, repoVars>>

\* _try_add_column: ALTER TABLE ... ADD COLUMN. "duplicate column name" is
\* printed and the call returns False; any other error is re-raised, to the
\* except clause of init_db's phase 1.
Alter ==
    /\ mig.pc = "alter"
    /\ \E fault \in BOOLEAN :
         LET tr == Triples[mig.i] IN
         IF fault
         THEN /\ mig' = Abort1([mig EXCEPT !.failedAt = mig.i])
              /\ UNCHANGED <<schema, rows>>
         ELSE IF tr.c \in schema[tr.t]
         THEN /\ mig' = NextTriple([mig EXCEPT !.dups = @ \cup {mig.i}])
              /\ UNCHANGED <<schema, rows>>
         ELSE /\ AddColumn(tr.t, tr.c, tr.default)
              /\ mig' = NextTriple([mig EXCEPT !.made = TRUE])
    /\ UNCHANGED <<execVars, repoVars>>

\* A second running instance of the program executes the same ALTER TABLE
\* between this instance's test and its ALTER
OtherInstanceAlter ==
    /\ mig.pc = "alter"
    /\ Triples[mig.i].c \notin schema[Triples[mig.i].t]
    /\ AddColumn(Triples[mig.i].t, Triples[mig.i].c, Triples[mig.i].default)
    /\ UNCHANGED <<mig, execVars, repoVars>>

\* if made_schema_changes: conn.commit()
Commit1 ==
    /\ mig.pc = "commit1"
    /\ \E fault \in BOOLEAN :
         mig' = IF fault THEN Abort1(mig) ELSE [mig EXCEPT !.pc = "create", !.k = 1]
    /\ UNCHANGED <<schema, rows, execVars, repoVars>>

\* Create as CREATE TABLE without IF NOT EXISTS: an existing table is an error
CreateWithoutIfNotExists ==
    /\ mig.pc = "create"
    /\ \E fault \in BOOLEAN :
         LET t == Queries[mig.k]
             m == [mig EXCEPT !.created = @ + 1]
             next == IF mig.k < Len(Queries) THEN [m EXCEPT !.k = @ + 1]
                     ELSE [m EXCEPT !.pc = "commit2"]
         IN IF fault
            THEN /\ mig' = Abort2(m)
                 /\ UNCHANGED <<schema, rows>>
            ELSE IF TableExists(t)
            THEN /\ mig' = [Abort2(m) EXCEPT !.faulted = mig.faulted]
                 /\ UNCHANGED <<schema, rows>>
            ELSE /\ mig' = next
                 /\ schema' = [x \in DOMAIN schema \cup {t} |->
                                 IF x = t THEN Columns(t) ELSE schema[x]]
                 /\ rows' = [x \in DOMAIN rows \cup {t} |-> IF x = t THEN {} ELSE rows[x]]
    /\ UNCHANGED <<execVars, repoVars>>

\* Create as DROP TABLE IF EXISTS followed by CREATE TABLE
CreateReplacesTable ==
    /\ mig.pc = "create"
    /\ \E fault \in BOOLEAN :
         LET t == Queries[mig.k]
             m == [mig EXCEPT !.created = @ + 1]
             next == IF mig.k < Len(Queries) THEN [m EXCEPT !.k = @ + 1]
                     ELSE [m EXCEPT !.pc = "commit2"]
         IN IF fault
            THEN /\ mig' = Abort2(m)
                 /\ UNCHANGED <<schema, rows>>
            ELSE /\ mig' = next
                 /\ schema' = [x \in DOMAIN schema \cup {t} |->
                                 IF x = t THEN Columns(t) ELSE schema[x]]
                 /\ rows' = [x \in DOMAIN rows \cup {t} |-> IF x = t THEN {} ELSE rows[x]]
    /\ UNCHANGED <<execVars, repoVars>>

\* for query in queries: cursor.execute(query), one CREATE TABLE IF NOT
\* EXISTS per step; an error ends the loop in the except clause of phase 2
Create ==
    /\ mig.pc = "create"
    /\ \E fault \in BOOLEAN :
         LET t == Queries[mig.k]
             m == [mig EXCEPT !.created = @ + 1]
             next == IF mig.k < Len(Queries) THEN [m EXCEPT !.k = @ + 1]
                     ELSE [m EXCEPT !.pc = "commit2"]
         IN IF fault
            THEN /\ mig' = Abort2(m)
                 /\ UNCHANGED <<schema, rows>>
            ELSE IF TableExists(t)
            THEN /\ mig' = next
                 /\ UNCHANGED <<schema, rows>>
            ELSE /\ mig' = next
                 /\ schema' = [x \in DOMAIN schema \cup {t} |->
                                 IF x = t THEN Columns(t) ELSE schema[x]]
                 /\ rows' = [x \in DOMAIN rows \cup {t} |-> IF x = t THEN {} ELSE rows[x]]
    /\ UNCHANGED <<execVars, repoVars>>

\* conn.commit() after the loop
Commit2 ==
    /\ mig.pc = "commit2"
    /\ \E fault \in BOOLEAN :
         mig' = IF fault THEN Abort2(mig) ELSE [mig EXCEPT !.pc = "close"]
    /\ UNCHANGED <<schema, rows, execVars, repoVars>>

\* finally: conn.close()
Close ==
    /\ mig.pc = "close"
    /\ mig' = [mig EXCEPT !.pc = "done"]
    /\ UNCHANGED <<schema, rows, execVars, repoVars>>

\* init_db has returned (or raised); the program may be started again
Finish ==
    /\ mig.pc = "done"
    /\ mig' = IdleMig([has |-> TRUE, schema |-> schema, clean |-> ~mig.faulted,
                       err |-> mig.err1 \/ mig.err2 \/ mig.raised, made |-> mig.made])
    /\ UNCHANGED <<schema, rows, execVars, repoVars>>

\* The columns that installations of earlier versions lack
Migrated(t) ==
    IF t = "tasks" THEN {"category", "created_at"}
    ELSE IF t = "quiz_attempts" THEN {"questions_data"}
    ELSE {}

\* The files init_db may find: each table absent, or present with any subset
\* of its migrated columns missing; tasks and quiz_attempts empty or not
InitMig ==
    /\ \E others \in {{}, {"users", "study_logs"},
                       {"users", "task_categories", "study_logs", "config",
                        "ai_generated_content", "ai_chat_history"}} :
       \E withTasks \in BOOLEAN, withQuiz \in BOOLEAN :
       \E lackT \in SUBSET Migrated("tasks") :
       \E lackQ \in SUBSET Migrated("quiz_attempts") :
       \E rowsT \in BOOLEAN, rowsQ \in BOOLEAN :
          LET present == others \cup (IF withTasks THEN {"tasks"} ELSE {})
                                \cup (IF withQuiz THEN {"quiz_attempts"} ELSE {})
              cols(t) == IF t = "tasks" THEN Columns(t) \ lackT
                         ELSE IF t = "quiz_attempts" THEN Columns(t) \ lackQ
                         ELSE Columns(t)
              filled(t) == IF t = "tasks" THEN rowsT
                           ELSE IF t = "quiz_attempts" THEN rowsQ ELSE TRUE
          IN /\ schema = [t \in present |-> cols(t)]
             /\ rows = [t \in present |->
                          IF filled(t)
                          THEN {[c \in cols(t) |-> IF c = "category" THEN "Academic"
                                                                     ELSE "v"]}
                          ELSE {}]
    /\ mig = IdleMig([has |-> FALSE, schema |-> <<>>, clean |-> FALSE, err |-> FALSE, made |-> FALSE])
    /\ db = EmptyDb
    /\ mgr = NotConnected
    /\ conns = <<>>
    /\ thr = [t \in Threads |-> IdleThread]
    /\ rdb = EmptyDb
    /\ last = ParkedRepo
    /\ now = 0
    /\ app = <<>>

NextMig ==
    \/ Start
    \/ Check
    \/ Alter
    \/ OtherInstanceAlter
    \/ Commit1
    \/ Create
    \/ Commit2
    \/ Close
    \/ Finish

SpecMig == InitMig /\ [][NextMig]_vars

(* ---------------------------------------------------------------------- *)
(* Repositories: one action per method, each executor call in one piece     *)
(* ---------------------------------------------------------------------- *)
\* execute_query called while no other call is inside the executor: None
\* (ok = FALSE) and the content unchanged after an sqlite3.Error, be it the
\* statement's own or a fault of the store; the cursor's lastrowid otherwise
ExecuteQuery(d, q, fault) ==
    LET r == RunStatement(d, q, TRUE) IN
    IF fault \/ ~r.ok
    THEN [ok |-> FALSE, db |-> d, lastrowid |-> 0]
    ELSE [ok |-> TRUE, db |-> r.db, lastrowid |-> r.lastrowid]

\* add_user: default_categories
DefaultCategories == <<"General", "Academic", "Personal", "Project", "Urgent">>

\* add_task_category
AddTaskCategory(d, uid, name, fault) == ExecuteQuery(d, InsertCategory(uid, name), fault)

\* add_user: for cat_name in default_categories: add_task_category(...), from
\* the i-th name on; what add_task_category returns is not looked at
RECURSIVE SeedCategories(_, _, _, _)
SeedCategories(d, uid, i, faults) ==
    IF i > Len(DefaultCategories) THEN d
    ELSE SeedCategories(AddTaskCategory(d, uid, DefaultCategories[i], faults[i]).db,
                        uid, i + 1, faults)

\* The names of the task_categories rows of a user
StoredCategories(d, uid) == {c.name : c \in {x \in d.cats : x.user_id = uid}}

\* add_user(username, password): faults[0] is a fault of the store in the
\* INSERT into users, faults[i] in the i-th category insert
AddUserReplacing(u, p, faults) ==
    LET res == ExecuteQuery(rdb, InsertUser(u, p), faults[0]) IN
    /\ IF \E i \in UserIds(rdb) : rdb.users[i].username = u
       THEN /\ rdb' = [rdb EXCEPT !.users = [i \in UserIds(rdb) |->
                          IF rdb.users[i].username = u
                          THEN [rdb.users[i] EXCEPT !.password_hash = Sha256(p)]
                          ELSE rdb.users[i]]]
            /\ last' = [op |-> "add_user", ok |-> TRUE, uid |-> 0, u |-> u, p |-> p]
       ELSE /\ rdb' = IF res.ok /\ res.lastrowid # 0
                      THEN SeedCategories(res.db, res.lastrowid, 1, faults)
                      ELSE res.db
            /\ last' = [op |-> "add_user", ok |-> res.ok, uid |-> res.lastrowid, u |-> u,
                        p |-> p]
    /\ UNCHANGED <<execVars, migVars, now, app>>

AddUser(u, p, faults) ==
    LET res == ExecuteQuery(rdb, InsertUser(u, p), faults[0]) IN
    /\ rdb' = IF res.ok /\ res.lastrowid # 0
              THEN SeedCategories(res.db, res.lastrowid, 1, faults)
              ELSE res.db
    /\ last' = [op |-> "add_user", ok |-> res.ok, uid |-> res.lastrowid, u |-> u,
                p |-> p]
    /\ UNCHANGED <<execVars, migVars, now, app>>

InitRepo ==
    /\ rdb = EmptyDb
    /\ last = [op |-> "none", ok |-> FALSE, uid |-> 0, u |-> ""]
    /\ now = 0
    /\ app = <<>>
    /\ db = EmptyDb
    /\ mgr = NotConnected
    /\ conns = <<>>
    /\ thr = [t \in Threads |-> IdleThread]
    /\ schema = <<>>
    /\ rows = <<>>
    /\ mig = ParkedMig

NextRepo ==
    \/ \E u \in Usernames, p \in Passwords :
       \E faults \in [0..Len(DefaultCategories) -> BOOLEAN] : AddUser(u, p, faults)

SpecRepo == InitRepo /\ [][NextRepo]_vars

(* ---------------------------------------------------------------------- *)
(* Task categories: add, list, delete                                       *)
(* ---------------------------------------------------------------------- *)
MaxTasks == 3

\* AUTOINCREMENT of task_categories stops here
MaxCategoryRows == 12

\* Everything but the repository level at rest
OnlyRepo ==
    /\ db = EmptyDb
    /\ mgr = NotConnected
    /\ conns = <<>>
    /\ thr = [t \in Threads |-> IdleThread]
    /\ schema = <<>>
    /\ rows = <<>>
    /\ mig = ParkedMig

\* ORDER BY name: TEXT compares byte by byte, capitals before small letters
Rank(n) ==
    LET NameOrder == <<"Academic", "GENERAL", "General", "Personal", "Project", "Urgent">>
    IN CHOOSE i \in DOMAIN NameOrder : NameOrder[i] = n

\* str.lower()
Lower(n) ==
    CASE n \in {"GENERAL", "General"} -> "general"
      [] n = "Academic" -> "academic"
      [] n = "Personal" -> "personal"
      [] n = "Project" -> "project"
      [] n = "Urgent" -> "urgent"

RECURSIVE OrderByName(_)
OrderByName(S) ==
    IF S = {} THEN <<>>
    ELSE LET m == CHOOSE x \in S : \A y \in S : Rank(x) <= Rank(y)
         IN <<m>> \o OrderByName(S \ {m})

\* list.index(x), from 1; list.pop(i); list.insert(0, x)
IndexOf(l, x) == CHOOSE i \in DOMAIN l : l[i] = x /\ \A j \in 1..(i - 1) : l[j] # x

Elements(l) == {l[i] : i \in DOMAIN l}

\* fetch_all: the rows, or None when the store fails the read
FetchAll(result, fault) == IF fault THEN [ok |-> FALSE, set |-> <<>>]
                           ELSE [ok |-> TRUE, set |-> result]

\* "General" put in front when it is stored further down
GeneralLeftInPlace(cat_list) == cat_list

GeneralMovedToFront(cat_list) ==
    LET i == IndexOf(cat_list, "General")
        popped == SubSeq(cat_list, 1, i - 1) \o SubSeq(cat_list, i + 1, Len(cat_list))
    IN <<"General">> \o popped

\* get_task_categories(user_id)
GetTaskCategories(d, uid, fault) ==
    LET categories == FetchAll(OrderByName(StoredCategories(d, uid)), fault)
        cat_list == IF categories.ok /\ categories.set # <<>> THEN categories.set ELSE <<>>
    IN IF "General" \notin Elements(cat_list) THEN (<<"General">> \o cat_list)
       ELSE IF IndexOf(cat_list, "General") # 1 THEN GeneralMovedToFront(cat_list)
       ELSE cat_list

NoCall == [op |-> "none", pc |-> "returned", uid |-> 0, name |-> "", ok |-> FALSE,
           failed |-> FALSE, list |-> <<>>, had |-> {}, before |-> {}]

\* No repository method is between two of its statements
AtRest == last.pc # "retargeted"

\* SettingsFrame.add_category -> add_task_category
AddCategory(uid, name, fault) ==
    /\ AtRest
    /\ rdb.cseq < MaxCategoryRows
    /\ LET res == AddTaskCategory(rdb, uid, name, fault) IN
       /\ rdb' = res.db
       /\ last' = [NoCall EXCEPT !.op = "add_task_category", !.uid = uid, !.name = name,
                                 !.ok = res.ok]
    /\ UNCHANGED <<execVars, migVars, now, app>>

\* Text as the sequence of its characters; the digits, and a character's code
Digits == <<"0", "1", "2", "3", "4", "5", "6", "7", "8", "9">>

Digit(k) == Digits[k + 1]

CharCode(c) == IF c = "-" THEN 45 ELSE 47 + IndexOf(Digits, c)

\* TEXT values compared by the store: byte by byte, a prefix before the longer
RECURSIVE TextLess(_, _)
TextLess(a, b) ==
    IF b = <<>> THEN FALSE
    ELSE IF a = <<>> THEN TRUE
    ELSE IF Head(a) = Head(b) THEN TextLess(Tail(a), Tail(b))
    ELSE CharCode(Head(a)) < CharCode(Head(b))

\* The clock of the task pages counts days: day n of a September (30 days)
\* and the October after it, as [m, d]
DayOf(n) == IF n <= 30 THEN [m |-> 9, d |-> n] ELSE [m |-> 10, d |-> n - 30]

\* A number of a date in text, with or without its leading zero
Number(n, pad) ==
    IF n < 10 THEN (IF pad THEN <<"0", Digit(n)>> ELSE <<Digit(n)>>)
    ELSE <<Digit(n \div 10), Digit(n % 10)>>

DateText(day, padM, padD) ==
    <<"2", "0", "2", "4", "-">> \o Number(day.m, padM) \o <<"-">> \o Number(day.d, padD)

\* datetime.strptime(text, '%Y-%m-%d'): %m and %d take one or two digits;
\* date.strftime('%Y-%m-%d') is DateText with both zeros
Strptime(text) ==
    CHOOSE day \in {DayOf(n) : n \in 1..61} :
       \E padM \in BOOLEAN, padD \in BOOLEAN : DateText(day, padM, padD) = text

\* TaskManagerFrame.add_task -> add_task: due_text is the due-date entry
\* (empty for none), the category one of the combobox's values, which
\* load_categories took from get_task_categories
AddTask(uid, due_text, fault) ==
    /\ AtRest
    /\ rdb.tseq < MaxTasks
    /\ IF due_text # <<>>
          /\ ~(\E day \in {DayOf(n) : n \in 1..61}, padM \in BOOLEAN, padD \in BOOLEAN :
                  DateText(day, padM, padD) = due_text)
       THEN /\ rdb' = rdb
            /\ last' = [NoCall EXCEPT !.op = "add_task", !.uid = uid, !.pc = "invalid date"]
       ELSE \E listFault \in BOOLEAN :
            \E cat \in Elements(GetTaskCategories(rdb, uid, listFault)) :
               LET due == IF due_text # <<>> THEN due_text ELSE Null
                   res == ExecuteQuery(rdb, [k |-> "insert_task", uid |-> uid, name |-> cat,
                                             due |-> due, description |-> "essay",
                                             now |-> now], fault)
               IN /\ rdb' = res.db
                  /\ last' = [NoCall EXCEPT !.op = "add_task", !.uid = uid, !.name = cat,
                                            !.ok = res.ok]
    /\ UNCHANGED <<execVars, migVars, now, app>>

\* The tasks of a user in a category
TasksIn(d, uid, name) ==
    {i \in DOMAIN d.tasks : d.tasks[i].user_id = uid /\ d.tasks[i].category = name}

\* delete_task_category, as far as the UPDATE: the test may be case sensitive in
\* a variant of the code
DeleteGuardExact(name) == name = "General"

DeleteGuard(name) == Lower(name) = "general"

DeleteTaskCategoryBegin(uid, name, fault) ==
    /\ AtRest
    /\ IF DeleteGuard(name)
       THEN /\ rdb' = rdb
            /\ last' = [NoCall EXCEPT !.op = "delete_task_category", !.pc = "rejected",
                                      !.uid = uid, !.name = name,
                                      !.had = TasksIn(rdb, uid, name),
                                      !.before = rdb]
       ELSE LET res == ExecuteQuery(rdb, [k |-> "update_tasks_category", uid |-> uid, name |-> name], fault) IN
            /\ rdb' = res.db
            /\ last' = [NoCall EXCEPT !.op = "delete_task_category", !.pc = "retargeted",
                                      !.uid = uid, !.name = name,
                                      !.failed = ~res.ok,
                                      !.had = TasksIn(rdb, uid, name),
                                      !.before = {}]
    /\ UNCHANGED <<execVars, migVars, now, app>>

\* delete_task_category: the DELETE and the return
DeleteTaskCategoryEnd(fault) ==
    /\ last.pc = "retargeted"
    /\ LET res == ExecuteQuery(rdb, [k |-> "delete_category", uid |-> last.uid, name |-> last.name], fault) IN
       /\ rdb' = res.db
       /\ last' = [last EXCEPT !.pc = "returned", !.ok = res.ok]
    /\ UNCHANGED <<execVars, migVars, now, app>>

\* The process ends between the two statements
Crash ==
    /\ last.pc = "retargeted"
    /\ last' = [last EXCEPT !.pc = "crashed"]
    /\ UNCHANGED <<rdb, execVars, migVars, now, app>>

\* load_user_categories / load_categories -> get_task_categories
ListCategories(uid, fault) ==
    /\ AtRest
    /\ last' = [NoCall EXCEPT !.op = "get_task_categories", !.uid = uid,
                              !.failed = fault,
                              !.list = GetTaskCategories(rdb, uid, fault)]
    /\ UNCHANGED <<rdb, execVars, migVars, now, app>>

\* Two registered users; the five inserts of the first one's add_user may
\* have failed
Registered(faults) ==
    LET a == RunStatement(EmptyDb, InsertUser("alice", "secret1"), TRUE)
        b == RunStatement(SeedCategories(a.db, a.lastrowid, 1, faults),
                          InsertUser("bob", "secret1"), TRUE)
        c == SeedCategories(b.db, b.lastrowid, 1,
                            [i \in 0..Len(DefaultCategories) |-> FALSE])
    IN RunStatement(c, [k |-> "insert_task", uid |-> b.lastrowid, name |-> "Academic",
                        due |-> Null, description |-> "notes", now |-> 0], TRUE).db

\* controller.current_user_id of the session: the first registered user
CurrentUserId == 1

InitCat ==
    /\ \E none \in BOOLEAN :
          rdb = Registered([i \in 0..Len(DefaultCategories) |-> none /\ i # 0])
    /\ last = NoCall
    /\ now = 0
    /\ app = <<>>
    /\ OnlyRepo

NextCat ==
    \/ \E name \in {"Academic", "GENERAL", "General"}, fault \in BOOLEAN :
          AddCategory(CurrentUserId, name, fault)
    \/ \E fault \in BOOLEAN : AddTask(CurrentUserId, <<>>, fault)
    \/ \E name \in {"Academic", "GENERAL", "General"}, fault \in BOOLEAN :
          DeleteTaskCategoryBegin(CurrentUserId, name, fault)
    \/ \E fault \in BOOLEAN : DeleteTaskCategoryEnd(fault)
    \/ Crash
    \/ \E fault \in BOOLEAN : ListCategories(CurrentUserId, fault)

SpecCat == InitCat /\ [][NextCat]_vars

(* ---------------------------------------------------------------------- *)
(* Tasks: add, toggle, delete, list by due date                             *)
(* ---------------------------------------------------------------------- *)
\* The first and the last day of the clock: 30 September, 1 October
FirstDay == 30

LastDay == 31

\* " AND due_date < ? AND completed = 0": a NULL due date compares to nothing
OverdueRowAnyStatus(t, today_str) ==
    t.due_date # Null /\ TextLess(t.due_date, today_str)

OverdueRow(t, today_str) ==
    t.due_date # Null /\ TextLess(t.due_date, today_str) /\ t.completed = 0

\* get_tasks(user_id, show_completed, category_filter, due_filter) on day
\* today: the task_ids of the rows selected (no caller passes a limit; the
\* ORDER BY is left out), or None when the store fails the read
GetTasks(d, uid, show_completed, category_filter, due_filter, today, fault) ==
    LET today_str == DateText(DayOf(today), TRUE, TRUE)
        next_week_str == DateText(DayOf(today + 7), TRUE, TRUE)
        Selected(t) ==
           /\ t.user_id = uid
           /\ (~show_completed => t.completed = 0)
           /\ (category_filter \notin {"None", "All Categories"}
                  => t.category = category_filter)
           /\ CASE due_filter = "today" -> (t.due_date # Null /\ t.due_date = today_str)
                [] due_filter = "upcoming" ->
                      (/\ t.due_date # Null
                       /\ TextLess(today_str, t.due_date)
                       /\ ~TextLess(next_week_str, t.due_date))
                [] due_filter = "overdue" -> OverdueRow(t, today_str)
                [] OTHER -> TRUE
    IN FetchAll({i \in DOMAIN d.tasks : Selected(d.tasks[i])}, fault)

\* check_reminders / TaskManagerFrame.refresh_data -> get_tasks
ListTasks(uid, show_completed, category_filter, due_filter, fault) ==
    /\ LET res == GetTasks(rdb, uid, show_completed, category_filter, due_filter,
                           now, fault)
       IN last' = [op |-> "get_tasks", uid |-> uid, show_completed |-> show_completed,
                   category_filter |-> category_filter, due_filter |-> due_filter,
                   failed |-> ~res.ok, result |-> IF res.ok THEN res.set ELSE {},
                   pc |-> "returned"]
    /\ UNCHANGED <<rdb, execVars, migVars, now, app>>

\* ToggleTaskStatus, were the UPDATE to rewrite the description as well
ToggleTaskStatusRewriting(uid, tid, readFault, fault) ==
    /\ tid \in DOMAIN rdb.tasks
    /\ IF readFault \/ rdb.tasks[tid].user_id # uid
       THEN /\ rdb' = rdb
            /\ last' = [NoCall EXCEPT !.op = "toggle_task_status", !.uid = uid]
       ELSE LET n_stat == IF rdb.tasks[tid].completed = 0 THEN 1 ELSE 0
                res == ExecuteQuery(rdb, [k |-> "update_task_status", tid |-> tid, completed |-> n_stat], fault)
            IN /\ rdb' = IF res.ok
                         THEN [res.db EXCEPT !.tasks[tid].description = "done"]
                         ELSE res.db
               /\ last' = [NoCall EXCEPT !.op = "toggle_task_status", !.uid = uid,
                                         !.ok = res.ok]
    /\ UNCHANGED <<execVars, migVars, now, app>>

\* TaskManagerFrame.toggle_task_status: fetch_one, then update_task_status
ToggleTaskStatus(uid, tid, readFault, fault) ==
    /\ tid \in DOMAIN rdb.tasks
    /\ IF readFault \/ rdb.tasks[tid].user_id # uid
       THEN /\ rdb' = rdb
            /\ last' = [NoCall EXCEPT !.op = "toggle_task_status", !.uid = uid]
       ELSE LET n_stat == IF rdb.tasks[tid].completed = 0 THEN 1 ELSE 0
                res == ExecuteQuery(rdb, [k |-> "update_task_status", tid |-> tid, completed |-> n_stat], fault)
            IN /\ rdb' = res.db
               /\ last' = [NoCall EXCEPT !.op = "toggle_task_status", !.uid = uid,
                                         !.ok = res.ok]
    /\ UNCHANGED <<execVars, migVars, now, app>>

\* TaskManagerFrame.delete_task: fetch_one, then delete_task
RemoveTask(uid, tid, readFault, fault) ==
    /\ tid \in DOMAIN rdb.tasks
    /\ IF readFault \/ rdb.tasks[tid].user_id # uid
       THEN /\ rdb' = rdb
            /\ last' = [NoCall EXCEPT !.op = "delete_task", !.uid = uid]
       ELSE LET res == ExecuteQuery(rdb, [k |-> "delete_task", tid |-> tid], fault)
            IN /\ rdb' = res.db
               /\ last' = [NoCall EXCEPT !.op = "delete_task", !.uid = uid, !.ok = res.ok]
    /\ UNCHANGED <<execVars, migVars, now, app>>

\* Midnight
DayPasses ==
    /\ now < LastDay
    /\ now' = now + 1
    /\ UNCHANGED <<rdb, last, execVars, migVars, app>>

\* Two registered users; of the first one's categories General and Academic
\* are stored
InitDue ==
    /\ rdb = Registered([i \in 0..Len(DefaultCategories) |-> i > 2])
    /\ last = NoCall
    /\ now = FirstDay
    /\ app = <<>>
    /\ OnlyRepo

\* The handler has returned to the event loop; the next one starts from there
BackToEventLoop ==
    /\ last.op # "none"
    /\ last' = NoCall
    /\ UNCHANGED <<rdb, execVars, migVars, now, app>>

InEventLoop == last.op = "none"

\* What is typed into the due-date entry: nothing, two days with and
\* without leading zeros, and a text that is no date; category_filter is
\* None, the filter combobox's "All Categories", or a name
NextDue ==
    \/ \E text \in ({<<>>, <<"1", "0", "-", "1">>}
                       \cup {DateText(day, padM, padD) :
                               day \in {DayOf(30), DayOf(31)},
                               padM \in BOOLEAN, padD \in BOOLEAN}),
          fault \in BOOLEAN :
          InEventLoop /\ AddTask(CurrentUserId, text, fault)
    \/ \E tid \in 1..MaxTasks, readFault \in BOOLEAN, fault \in BOOLEAN :
          InEventLoop /\ ToggleTaskStatus(CurrentUserId, tid, readFault, fault)
    \/ \E tid \in 1..MaxTasks, readFault \in BOOLEAN, fault \in BOOLEAN :
          InEventLoop /\ RemoveTask(CurrentUserId, tid, readFault, fault)
    \/ InEventLoop /\ DayPasses
    \/ \E show_completed \in BOOLEAN, category_filter \in {"None", "All Categories", "Academic"},
          due_filter \in {"None", "today", "upcoming", "overdue"}, fault \in BOOLEAN :
          InEventLoop
             /\ ListTasks(CurrentUserId, show_completed, category_filter, due_filter, fault)
    \/ BackToEventLoop

SpecDue == InitDue /\ [][NextDue]_vars

(* ---------------------------------------------------------------------- *)
(* Quiz attempts: the question snapshot as JSON text                        *)
(* ---------------------------------------------------------------------- *)
MaxAttempts == 2

\* Python values: a str, an int, None
PyStr(x) == <<"str", x>>

PyInt(n) == <<"int", n>>

PyNone == <<"None">>

\* The keys of a stored question, in the order show_results writes them
QuestionKeys == <<"question_text", "options", "correct_option_index", "explanation",
                  "user_answer_index">>

\* Questions as the quiz page holds them at show_results: text, four
\* options, the correct index, an explanation, the index answered or None
Questions ==
    {[question_text |-> PyStr(c[1]), options |-> <<PyStr("a"), PyStr("b"), PyStr("c"), PyStr("d")>>,
      correct_option_index |-> PyInt(c[2]), explanation |-> PyStr("because"),
      user_answer_index |-> a] :
        c \in {<<"Q1", 0>>, <<"Q2", 3>>}, a \in {PyNone, PyInt(0), PyInt(3)}}

\* json.dumps: the text as its tokens
DumpScalar(v) ==
    CASE v[1] = "str" -> <<"string", v[2]>>
      [] v[1] = "int" -> <<"number", v[2]>>
      [] v[1] = "None" -> <<"null">>

RECURSIVE DumpItems(_)
DumpItems(l) == IF l = <<>> THEN <<>> ELSE <<DumpScalar(Head(l))>> \o DumpItems(Tail(l))

RECURSIVE DumpMembers(_, _)
DumpMembers(q, keys) ==
    IF keys = <<>> THEN <<>>
    ELSE LET key == Head(keys)
             value == IF key = "options"
                      THEN << <<"[">> >> \o DumpItems(q[key]) \o << <<"]">> >>
                      ELSE <<DumpScalar(q[key])>>
         IN << <<"key", key>> >> \o value \o DumpMembers(q, Tail(keys))

DumpQuestionWithoutAnswer(q) ==
    << <<"{">> >> \o DumpMembers(q, SubSeq(QuestionKeys, 1, 4))
                 \o << <<"key", "user_answer_index">>, <<"null">>, <<"}">> >>

DumpQuestion(q) == << <<"{">> >> \o DumpMembers(q, QuestionKeys) \o << <<"}">> >>

RECURSIVE DumpQuestions(_)
DumpQuestions(l) == IF l = <<>> THEN <<>> ELSE DumpQuestion(Head(l)) \o DumpQuestions(Tail(l))

JsonDumps(q_data_store) == << <<"[">> >> \o DumpQuestions(q_data_store) \o << <<"]">> >>

\* json.loads: the value the tokens from position i on spell, and the
\* position after it
RECURSIVE ParseValue(_, _), ParseItems(_, _, _), ParseMembers(_, _, _)
ParseValue(toks, i) ==
    LET t == toks[i] IN
    CASE t[1] = "string" -> [v |-> PyStr(t[2]), next |-> i + 1]
      [] t[1] = "number" -> [v |-> PyInt(t[2]), next |-> i + 1]
      [] t[1] = "null" -> [v |-> PyNone, next |-> i + 1]
      [] t[1] = "[" -> ParseItems(toks, i + 1, <<>>)
      [] t[1] = "{" -> ParseMembers(toks, i + 1, <<>>)

ParseItems(toks, i, acc) ==
    IF toks[i][1] = "]" THEN [v |-> acc, next |-> i + 1]
    ELSE LET r == ParseValue(toks, i) IN ParseItems(toks, r.next, Append(acc, r.v))

ParseMembers(toks, i, acc) ==
    IF toks[i][1] = "}" THEN [v |-> acc, next |-> i + 1]
    ELSE LET r == ParseValue(toks, i + 1)
         IN ParseMembers(toks, r.next, acc @@ (toks[i][2] :> r.v))

JsonLoads(text) == ParseValue(text, 1).v

\* fetch_one: the first row, or None when there is none or the store fails
FetchOne(result, fault) ==
    IF fault \/ result = <<>> THEN [ok |-> FALSE, row |-> <<>>]
    ELSE [ok |-> TRUE, row |-> result[1]]

\* get_quiz_attempt_details(attempt_id): (topic, questions_data)
GetQuizAttemptDetails(d, attempt_id, fault) ==
    FetchOne(IF attempt_id \in DOMAIN d.quiz
             THEN << <<d.quiz[attempt_id].topic, d.quiz[attempt_id].questions_data>> >>
             ELSE <<>>, fault)

NoQuizCall == [op |-> "none", ok |-> FALSE, id |-> 0, submitted |-> <<>>, got |-> <<>>]

\* QuizFrame.show_results -> add_quiz_attempt with json.dumps(q_data_store)
ShowResults(uid, topic, questions, fault) ==
    /\ Len(rdb.quiz) < MaxAttempts
    /\ LET q_json == JsonDumps(questions)
           res == ExecuteQuery(rdb, [k |-> "insert_quiz", uid |-> uid, topic |-> topic, text |-> q_json], fault)
       IN /\ rdb' = res.db
          /\ last' = [NoQuizCall EXCEPT !.op = "add_quiz_attempt", !.ok = res.ok,
                                        !.id = res.lastrowid, !.submitted = questions]
    /\ UNCHANGED <<execVars, migVars, now, app>>

\* get_quiz_attempt_details and the review's json.loads of the text
ReviewAttempt(attempt_id, fault) ==
    /\ LET res == GetQuizAttemptDetails(rdb, attempt_id, fault)
       IN last' = [NoQuizCall EXCEPT !.op = "get_quiz_attempt_details", !.ok = res.ok,
                                     !.id = attempt_id,
                                     !.got = IF res.ok THEN JsonLoads(res.row[2]) ELSE <<>>]
    /\ UNCHANGED <<rdb, execVars, migVars, now, app>>

\* get_quiz_attempts(user_id): the attempt_ids of the summary rows
ListAttempts(uid, fault) ==
    /\ LET res == FetchAll({i \in DOMAIN rdb.quiz : rdb.quiz[i].user_id = uid}, fault)
       IN last' = [NoQuizCall EXCEPT !.op = "get_quiz_attempts", !.ok = res.ok,
                                     !.got = IF res.ok THEN res.set ELSE {}]
    /\ UNCHANGED <<rdb, execVars, migVars, now, app>>

InitQuiz ==
    /\ rdb = RunStatement(EmptyDb, InsertUser("alice", "secret1"), TRUE).db
    /\ last = NoCall
    /\ now = 0
    /\ app = <<>>
    /\ OnlyRepo

NextQuiz ==
    \/ \E questions \in ({<<q>> : q \in Questions}
                            \cup {<<q1, q2>> : q1 \in Questions, q2 \in Questions}),
          fault \in BOOLEAN :
          InEventLoop /\ ShowResults(CurrentUserId, "History", questions, fault)
    \/ \E attempt_id \in 1..MaxAttempts, fault \in BOOLEAN :
          InEventLoop /\ ReviewAttempt(attempt_id, fault)
    \/ \E fault \in BOOLEAN : InEventLoop /\ ListAttempts(CurrentUserId, fault)
    \/ BackToEventLoop

SpecQuiz == InitQuiz /\ [][NextQuiz]_vars

(* ---------------------------------------------------------------------- *)
(* Chat history: append, read the last messages                             *)
(* ---------------------------------------------------------------------- *)
MaxMessages == 3

\* The clock of the chat page counts seconds, up to this one
MaxSecond == 1

\* The limits get_chat_history is called with
MaxLimit == 3

\* The message_ids of a user's rows
MessagesOf(d, uid) == {i \in DOMAIN d.chat : d.chat[i].user_id = uid}

\* "... WHERE user_id = ? ORDER BY timestamp DESC LIMIT ?": every order of
\* message_ids the store may answer with; rows with equal timestamps come
\* in an order the statement does not fix, and which of them the limit cuts
\* is not fixed either
ChatSelections(d, uid, limit) ==
    LET ids == MessagesOf(d, uid)
        n == IF limit < Cardinality(ids) THEN limit ELSE Cardinality(ids)
    IN {sel \in [1..n -> ids] :
          /\ \A j, k \in 1..n : j < k =>
                sel[j] # sel[k] /\ d.chat[sel[j]].timestamp >= d.chat[sel[k]].timestamp
          /\ \A i \in ids : (\A j \in 1..n : sel[j] # i) =>
                \A j \in 1..n : d.chat[i].timestamp <= d.chat[sel[j]].timestamp}

\* list(reversed(history))
NotReversed(history) == history

Reversed(history) == [i \in 1..Len(history) |-> history[Len(history) + 1 - i]]

\* The row (role, content, timestamp) of a message
ChatRow(d, i) == <<d.chat[i].role, d.chat[i].content, d.chat[i].timestamp>>

\* send_chat_message / _get_gemini_response -> add_chat_message; the store
\* stamps the row with CURRENT_TIMESTAMP
AddChatMessage(uid, role, content, fault) ==
    /\ Len(rdb.chat) < MaxMessages
    /\ LET res == ExecuteQuery(rdb, [k |-> "insert_chat", uid |-> uid, role |-> role, content |-> content, now |-> now], fault)
       IN /\ rdb' = res.db
          /\ last' = [op |-> "add_chat_message", uid |-> uid, limit |-> 0,
                      failed |-> ~res.ok, result |-> <<>>]
    /\ UNCHANGED <<execVars, migVars, now, app>>

\* get_chat_history(user_id, limit)
GetChatHistory(uid, limit, fault) ==
    /\ \E sel \in ChatSelections(rdb, uid, limit) :
          LET res == FetchAll([j \in DOMAIN sel |-> ChatRow(rdb, sel[j])], fault)
              history == res.set
          IN last' = [op |-> "get_chat_history", uid |-> uid, limit |-> limit,
                      failed |-> ~res.ok,
                      result |-> IF res.ok /\ history # <<>> THEN Reversed(history)
                                 ELSE <<>>]
    /\ UNCHANGED <<rdb, execVars, migVars, now, app>>

\* A second passes
Tick ==
    /\ now < MaxSecond
    /\ now' = now + 1
    /\ UNCHANGED <<rdb, last, execVars, migVars, app>>

InitChat ==
    /\ rdb = RunStatement(RunStatement(EmptyDb, InsertUser("alice", "secret1"), TRUE).db,
                          InsertUser("bob", "secret1"), TRUE).db
    /\ last = NoCall
    /\ now = 0
    /\ app = <<>>
    /\ OnlyRepo

NextChat ==
    \/ \E uid \in UserIds(rdb), role \in {"user", "model"}, fault \in BOOLEAN :
          InEventLoop /\ AddChatMessage(uid, role, "hello", fault)
    \/ \E uid \in UserIds(rdb), limit \in 0..MaxLimit, fault \in BOOLEAN :
          InEventLoop /\ GetChatHistory(uid, limit, fault)
    \/ InEventLoop /\ Tick
    \/ BackToEventLoop

SpecChat == InitChat /\ [][NextChat]_vars

(* ---------------------------------------------------------------------- *)
(* Registration and login                                                   *)
(* ---------------------------------------------------------------------- *)
\* check_user(username, password): the row (user_id, username), or None
CheckUser(d, u, p, fault) ==
    FetchOne(RunStatement(d, SelectUser(u, p), TRUE).set, fault)

\* LoginPage.login -> check_user
Login(u, p, fault) ==
    /\ LET res == CheckUser(rdb, u, p, fault)
       IN last' = [op |-> "check_user", ok |-> res.ok, uid |-> 0, u |-> u, p |-> p,
                   failed |-> fault, row |-> res.row]
    /\ UNCHANGED <<rdb, execVars, migVars, now, app>>

InitAuth ==
    /\ rdb = EmptyDb
    /\ last = NoCall
    /\ now = 0
    /\ app = <<>>
    /\ OnlyRepo

\* The store fails no statement of add_user, or fails its INSERT into users
NextAuth ==
    \/ \E u \in Usernames, p \in Passwords,
          faults \in {[i \in 0..Len(DefaultCategories) |-> first /\ i = 0] :
                         first \in BOOLEAN} :
          InEventLoop /\ AddUser(u, p, faults)
    \/ \E u \in Usernames, p \in Passwords, fault \in BOOLEAN :
          InEventLoop /\ Login(u, p, fault)
    \/ BackToEventLoop

SpecAuth == InitAuth /\ [][NextAuth]_vars

(* ---------------------------------------------------------------------- *)
(* Study logs and the study streak                                          *)
(* ---------------------------------------------------------------------- *)
MaxLogs == 4

\* datetime.strptime(start_time.split(" ")[0], "%Y-%m-%d").date(), as the
\* number of the day
DateOf(start_time) ==
    LET date_obj == Strptime(SubSeq(start_time, 1, IndexOf(start_time, " ") - 1))
    IN IF date_obj.m = 9 THEN date_obj.d ELSE 30 + date_obj.d

\* while check_date in unique_study_dates: current_streak += 1; check_date -= 1 day
RECURSIVE ConsecutiveDays(_, _)
ConsecutiveDays(unique_study_dates, check_date) ==
    IF check_date \in unique_study_dates
    THEN 1 + ConsecutiveDays(unique_study_dates, check_date - 1)
    ELSE 0

CalculateStudyStreakFromToday(study_logs_data, today) ==
    ConsecutiveDays({DateOf(study_logs_data[i].start_time) : i \in DOMAIN study_logs_data},
                    today)

\* calculate_study_streak(study_logs_data) called on day today
CalculateStudyStreak(study_logs_data, today) ==
    LET unique_study_dates ==
            {DateOf(study_logs_data[i].start_time) : i \in DOMAIN study_logs_data}
        current_streak == ConsecutiveDays(unique_study_dates, today)
    IN IF study_logs_data = <<>> THEN 0
       ELSE IF ~(today \in unique_study_dates \/ (today - 1) \in unique_study_dates) THEN 0
       ELSE IF current_streak = 0 /\ (today - 1) \in unique_study_dates
       THEN 1 + ConsecutiveDays(unique_study_dates, today - 2)
       ELSE current_streak

\* StudyTrackerFrame.log_session -> add_study_log with
\* datetime.now().strftime("%Y-%m-%d %H:%M:%S")
LogSession(uid, fault) ==
    /\ Len(rdb.logs) < MaxLogs
    /\ LET start_s == DateText(DayOf(now), TRUE, TRUE)
                         \o <<" ", "0", "9", ":", "3", "0", ":", "0", "0">>
           res == ExecuteQuery(rdb, [k |-> "insert_log", uid |-> uid,
                                     start_time |-> start_s], fault)
       IN /\ rdb' = res.db
          /\ last' = [op |-> "add_study_log", ok |-> res.ok, logs |-> <<>>,
                      today |-> now, streak |-> 0]
    /\ UNCHANGED <<execVars, migVars, now, app>>

\* AnalyticsFrame.refresh_data: get_study_logs(uid), newest first, then
\* calculate_study_streak(s_logs if s_logs else [])
RefreshAnalytics(uid, fault) ==
    /\ LET mine == SelectSeq(rdb.logs, LAMBDA l : l.user_id = uid)
           s_logs == FetchAll(Reversed(mine), fault)
           given == IF s_logs.ok THEN s_logs.set ELSE <<>>
       IN last' = [op |-> "calculate_study_streak", ok |-> s_logs.ok, logs |-> given,
                   today |-> now, streak |-> CalculateStudyStreak(given, now)]
    /\ UNCHANGED <<rdb, execVars, migVars, now, app>>

\* A registered user; the clock starts four days before its last day
InitStreak ==
    /\ rdb = RunStatement(EmptyDb, InsertUser("alice", "secret1"), TRUE).db
    /\ last = NoCall
    /\ now = LastDay - 4
    /\ app = <<>>
    /\ OnlyRepo

NextStreak ==
    \/ \E fault \in BOOLEAN : InEventLoop /\ LogSession(CurrentUserId, fault)
    \/ \E fault \in BOOLEAN : InEventLoop /\ RefreshAnalytics(CurrentUserId, fault)
    \/ InEventLoop /\ DayPasses
    \/ BackToEventLoop

SpecStreak == InitStreak /\ [][NextStreak]_vars

(* ---------------------------------------------------------------------- *)
(* Rows owned by a user, written through the executor                       *)
(* ---------------------------------------------------------------------- *)
MaxOwnedRows == 1

\* add_task_category, add_study_log, add_quiz_attempt, add_ai_content and
\* add_chat_message called with no user (0), a user, or an id that may be
\* no user's
OwnedCalls ==
    {<<"execute_query", InsertCategory(0, "General")>>}
       \cup UNION {{<<"execute_query", [k |-> "insert_log", uid |-> uid,
                                        start_time |-> <<>>]>>,
                    <<"execute_query", [k |-> "insert_quiz", uid |-> uid,
                                        topic |-> "History", text |-> <<>>]>>,
                    <<"execute_query", [k |-> "insert_content", uid |-> uid]>>,
                    <<"execute_query", [k |-> "insert_chat", uid |-> uid, role |-> "user",
                                        content |-> "hi", now |-> 0]>>} : uid \in 0..2}

DbAddTaskUnguarded(t, user_id, category) ==
    Call(t, "execute_query",
         [k |-> "insert_task", uid |-> user_id, due |-> Null, given |-> category,
          description |-> "essay", now |-> 0,
          name |-> IF category = "omitted" THEN "General" ELSE category])

\* add_task(user_id, description, category='General', due_date=None):
\* given is the category argument as the caller wrote it
DbAddTask(t, user_id, category) ==
    IF user_id = 0
    THEN /\ last' = [op |-> "add_task", result |-> "None"]
         /\ UNCHANGED <<execVars, migVars, rdb, now, app>>
    ELSE Call(t, "execute_query",
              [k |-> "insert_task", uid |-> user_id, due |-> Null, given |-> category,
               description |-> "essay", now |-> 0,
               name |-> IF category = "omitted" THEN "General" ELSE category])

\* Calls that never overlap, while fewer than MaxOwnedRows owned rows are stored
NextOwned ==
    \/ \E c \in OwnedCalls :
          /\ Len(db.logs) + Len(db.quiz) + Len(db.content) + Len(db.chat)
                + Cardinality(DOMAIN db.tasks) < MaxOwnedRows
          /\ Alone("main")
          /\ Call("main", c[1], c[2])
    \/ \E user_id \in 0..2, category \in {"omitted", "Academic"} :
          /\ Len(db.logs) + Len(db.quiz) + Len(db.content) + Len(db.chat)
                + Cardinality(DOMAIN db.tasks) < MaxOwnedRows
          /\ Alone("main")
          /\ thr["main"].pc = "idle"
          /\ DbAddTask("main", user_id, category)
    \/ NextSeq

SpecOwned == InitExec /\ [][NextOwned]_vars

(* ---------------------------------------------------------------------- *)
(* Config values                                                            *)
(* ---------------------------------------------------------------------- *)
\* get_config_value(key): row[0] if row else None
GetConfigValue(d, key, fault) ==
    LET row == FetchOne(RunStatement(d, SelectConfig(key), TRUE).set, fault)
    IN [ok |-> row.ok, value |-> IF row.ok THEN row.row[1] ELSE ""]

SetConfigValueIgnoring(key, value, fault) ==
    LET res == ExecuteQuery(rdb, [k |-> "upsert_config", key |-> key, value |-> value], fault)
        kept == \E r \in rdb.config : r.key = key
    IN /\ rdb' = IF kept THEN rdb ELSE res.db
       /\ last' = [op |-> "set_config_value", key |-> key, value |-> value,
                   ok |-> res.ok, failed |-> fault]
       /\ app' = IF res.ok THEN (key :> value) @@ app ELSE app
       /\ UNCHANGED <<execVars, migVars, now>>

\* set_config_value(key, value); app keeps, for each key, the value of the
\* last call that returned a cursor
SetConfigValue(key, value, fault) ==
    LET res == ExecuteQuery(rdb, [k |-> "upsert_config", key |-> key, value |-> value], fault)
    IN /\ rdb' = res.db
       /\ last' = [op |-> "set_config_value", key |-> key, value |-> value,
                   ok |-> res.ok, failed |-> fault]
       /\ app' = IF res.ok THEN (key :> value) @@ app ELSE app
       /\ UNCHANGED <<execVars, migVars, now>>

ReadConfigValue(key, fault) ==
    /\ LET res == GetConfigValue(rdb, key, fault)
       IN last' = [op |-> "get_config_value", key |-> key, value |-> res.value,
                   ok |-> res.ok, failed |-> fault]
    /\ UNCHANGED <<rdb, app, execVars, migVars, now>>

InitConfig ==
    /\ rdb = EmptyDb
    /\ last = NoCall
    /\ now = 0
    /\ app = <<>>
    /\ OnlyRepo

NextConfig ==
    \/ \E key \in {"GEMINI_API_KEY", "OTHER_KEY"}, value \in {"key1", "key2", "key3"},
          fault \in BOOLEAN :
          InEventLoop /\ SetConfigValue(key, value, fault)
    \/ \E key \in {"GEMINI_API_KEY", "OTHER_KEY"}, fault \in BOOLEAN :
          InEventLoop /\ ReadConfigValue(key, fault)
    \/ BackToEventLoop

SpecConfig == InitConfig /\ [][NextConfig]_vars

(* ---------------------------------------------------------------------- *)
(* init_db                                                                  *)
(* ---------------------------------------------------------------------- *)
\* C5: when an ALTER TABLE of phase 1 fails with an error other than
\* "duplicate column", no later triple of phase 1 is tried, phase 2 executes
\* its CREATE statements in the same call, and init_db does not raise.
C5_MigrationErrorAbandonsPhase1 ==
    (mig.pc = "done" /\ mig.failedAt # 0) =>
       /\ \A j \in DOMAIN Triples : j > mig.failedAt => j \notin mig.tried
       /\ mig.err1
       /\ mig.created >= 1
       /\ ~mig.raised

\* init_db returns after the first ALTER TABLE failed with phase 2 run in full
C5_Witness ==
    /\ mig.pc = "done"
    /\ mig.failedAt = 1
    /\ mig.created = Len(Queries)
    /\ ~mig.err2

\* C6: a triple whose ALTER TABLE is answered "duplicate column" counts as
\* done: its column is in the table, the answer sets off neither except
\* clause nor an exception out of init_db, and every later triple is still
\* tried, up to one that fails on a storage error of its own.
C6_DuplicateColumnIsBenign ==
    \A i \in mig.dups :
       /\ Triples[i].c \in schema[Triples[i].t]
       /\ mig.failedAt # i
       /\ ~mig.faulted => (~mig.err1 /\ ~mig.err2 /\ ~mig.raised)
       /\ mig.pc = "done" =>
             \A j \in DOMAIN Triples :
                j > i => (j \in mig.tried \/ (mig.failedAt > i /\ mig.failedAt < j))

\* init_db returns after the first triple was answered "duplicate column"
\* and the last triple added its column
C6_Witness ==
    /\ mig.pc = "done"
    /\ 1 \in mig.dups
    /\ Len(Triples) \in mig.tried
    /\ mig.made
    /\ ~mig.faulted

C8_SchemaComplete ==
    (mig.pc = "done" /\ ~mig.faulted) =>
       /\ DOMAIN schema = {Queries[k] : k \in DOMAIN Queries}
       /\ {"category", "created_at"} \subseteq schema["tasks"]
       /\ "questions_data" \in schema["quiz_attempts"]

\* init_db ends without a storage error on a file whose tasks and
\* quiz_attempts tables lacked every migrated column and that had no config
C8_Witness ==
    /\ mig.pc = "done"
    /\ ~mig.faulted
    /\ "tasks" \in DOMAIN mig.pre.schema
    /\ "quiz_attempts" \in DOMAIN mig.pre.schema
    /\ "config" \notin DOMAIN mig.pre.schema
    /\ mig.pre.schema["tasks"] \cap {"category", "created_at"} = {}
    /\ "questions_data" \notin mig.pre.schema["quiz_attempts"]

\* C9: at every point of a run of init_db, failed steps or not, every table
\* and column the file had when the run began is still there, and so is
\* every row, with the values its columns had.
C9_InitDbIsAdditive ==
    mig.pc # "idle" =>
       \A t \in DOMAIN mig.pre.schema :
          /\ t \in DOMAIN schema
          /\ mig.pre.schema[t] \subseteq schema[t]
          /\ \A r \in mig.pre.rows[t] :
                \E r2 \in rows[t] : \A c \in mig.pre.schema[t] : r2[c] = r[c]

\* init_db ends after a failed migration step, having added a column to a
\* tasks table that holds a row
C9_Witness ==
    /\ mig.pc = "done"
    /\ mig.err1
    /\ mig.made
    /\ "tasks" \in DOMAIN mig.pre.schema
    /\ mig.pre.rows["tasks"] # {}
    /\ "category" \notin mig.pre.schema["tasks"]
    /\ "category" \in schema["tasks"]

(* ---------------------------------------------------------------------- *)
(* Executor calls that do not overlap                                       *)
(* ---------------------------------------------------------------------- *)
NoOpenConnection == \A i \in DOMAIN conns : ~conns[i].open

\* C1: an executor call that runs without interleaving makes exactly one
\* sqlite3.connect call; when it returns, on the success path and on the
\* error path alike, the connection it opened has been closed by it and
\* self.conn and self.cursor are both None; while no call is running no
\* connection is open.
C1_ConnectionClosedOnReturn ==
    /\ \A t \in Threads :
         thr[t].pc = "return" =>
            /\ thr[t].opens = 1
            /\ (thr[t].mine # NoHandle => thr[t].closedOwn)
            /\ mgr = NotConnected
            /\ NoOpenConnection
    /\ (\A t \in Threads : thr[t].pc = "idle") => (mgr = NotConnected /\ NoOpenConnection)

\* A call returns on its error path after it had opened its connection
C1_Witness ==
    \E t \in Threads :
       /\ thr[t].pc = "return"
       /\ thr[t].err
       /\ thr[t].mine # NoHandle
       /\ thr[t].closedOwn

\* C2: execute_query lets no exception out; after an sqlite3.Error anywhere
\* in the call it returns None and the committed content is what it was when
\* the call began; otherwise it returns a cursor, and for an INSERT into
\* users that cursor's lastrowid is the id of the row the call added.
C2_ExecuteQueryContainsErrors ==
    \A t \in Threads :
       (thr[t].pc = "return" /\ thr[t].op = "execute_query") =>
          /\ thr[t].exc = "none"
          /\ thr[t].err => (thr[t].res = NoResult /\ db = thr[t].pre)
          /\ ~thr[t].err =>
                /\ thr[t].res.kind = "cursor"
                /\ thr[t].res.cur \in DOMAIN conns
                /\ thr[t].q.k = "insert_user" =>
                      LET id == conns[thr[t].res.cur].lastrowid IN
                      /\ id \notin UserIds(thr[t].pre)
                      /\ id \in UserIds(db)
                      /\ db.users[id].username = thr[t].q.u

\* execute_query returns after its statement ran and the commit failed
C2_Witness ==
    \E t \in Threads :
       /\ thr[t].pc = "return"
       /\ thr[t].op = "execute_query"
       /\ thr[t].q.k = "insert_user"
       /\ thr[t].ran
       /\ thr[t].err

(* ---------------------------------------------------------------------- *)
(* Executor calls of two threads on the shared DatabaseManager              *)
(* ---------------------------------------------------------------------- *)
\* C3: whatever the interleaving of a background thread's call with a main
\* thread's call, no call leaves the executor with an exception: each
\* returns its result or None.
C3_NoExceptionEscapes ==
    \A t \in Threads : thr[t].pc = "return" => thr[t].exc = "none"

\* C4: whatever the interleaving, a call that ran its statement ran it on
\* the connection it opened itself, a call that opened a connection has
\* closed that connection when it returns, and no connection is open once
\* both threads are outside the executor.
C4_OwnConnection ==
    /\ \A t \in Threads :
         thr[t].pc = "return" =>
            /\ (thr[t].ran => thr[t].usedOwn)
            /\ (thr[t].mine # NoHandle => thr[t].closedOwn)
    /\ (\A t \in Threads : thr[t].pc = "idle") => NoOpenConnection

(* ---------------------------------------------------------------------- *)
(* Repositories                                                             *)
(* ---------------------------------------------------------------------- *)
\* C10: after an add_user that returned success, the task_categories rows of
\* the new user are exactly General, Academic, Personal, Project and Urgent.
C10_FiveDefaultCategories ==
    (last.op = "add_user" /\ last.ok) =>
       StoredCategories(rdb, last.uid) =
          {DefaultCategories[i] : i \in DOMAIN DefaultCategories}

(* ---------------------------------------------------------------------- *)
(* Task categories                                                          *)
(* ---------------------------------------------------------------------- *)
\* C11: the list get_task_categories returns starts with "General" and holds
\* "General" once, whatever rows are stored; when the store answered the
\* read, the rest of the list is the user's other stored names, each once,
\* in ascending order.
C11_GeneralFirstThenSorted ==
    last.op = "get_task_categories" =>
       LET l == last.list
           rest == Tail(l)
           others == StoredCategories(rdb, last.uid) \ {"General"}
       IN /\ l # <<>>
          /\ l[1] = "General"
          /\ Cardinality({i \in DOMAIN l : l[i] = "General"}) = 1
          /\ ~last.failed =>
                /\ Elements(rest) = others
                /\ Len(rest) = Cardinality(others)
                /\ \A i, j \in DOMAIN rest : i < j => Rank(rest[i]) < Rank(rest[j])

\* "General" is not stored, two names that sort before it are, and the list
\* is "General" followed by the two
C11_Witness ==
    /\ last.op = "get_task_categories"
    /\ ~last.failed
    /\ StoredCategories(rdb, last.uid) = {"Academic", "GENERAL"}
    /\ last.list = <<"General", "Academic", "GENERAL">>

\* C12: once delete_task_category(u, C) has returned for a C it did not
\* reject, every task of u that had category C has category "General" and
\* C is not in get_task_categories(u).
C12_DeletedCategoryRetargeted ==
    (last.op = "delete_task_category" /\ last.pc = "returned") =>
       /\ \A i \in last.had : rdb.tasks[i].category = "General"
       /\ last.name \notin Elements(GetTaskCategories(rdb, last.uid, FALSE))

\* C13: delete_task_category with a name that is "General" but for the case
\* of its letters returns the rejection result and runs no statement: the
\* stored categories and tasks are those of before the call.
C13_GeneralNeverDeleted ==
    (last.op = "delete_task_category" /\ Lower(last.name) = "general") =>
       /\ last.pc = "rejected"
       /\ ~last.ok
       /\ rdb = last.before

\* "GENERAL" is a stored category with a task in it, and its deletion was
\* rejected
C13_Witness ==
    /\ last.op = "delete_task_category"
    /\ last.pc = "rejected"
    /\ last.name = "GENERAL"
    /\ "GENERAL" \in StoredCategories(rdb, last.uid)
    /\ last.had # {}

\* C14: from the first statement of delete_task_category(u, C) on, whether
\* it returned, failed in a statement or the process ended in between, the
\* row (u, C) is not absent while a task of u has category C.
C14_NoOrphanedTasks ==
    (last.op = "delete_task_category"
        /\ last.pc \in {"retargeted", "returned", "crashed"}) =>
       ~ /\ last.name \notin StoredCategories(rdb, last.uid)
         /\ TasksIn(rdb, last.uid, last.name) # {}

(* ---------------------------------------------------------------------- *)
(* Tasks by due date                                                        *)
(* ---------------------------------------------------------------------- *)
\* The day a stored due date names
DueDay(t) ==
    LET day == Strptime(t.due_date)
    IN IF day.m = 9 THEN day.d ELSE 30 + day.d

C16_TodayExactlyDueToday ==
    (last.op = "get_tasks" /\ last.due_filter = "today" /\ ~last.failed
        /\ last.category_filter \in {"None", "All Categories"}) =>
       last.result =
          {i \in DOMAIN rdb.tasks :
              /\ rdb.tasks[i].user_id = last.uid
              /\ (last.show_completed \/ rdb.tasks[i].completed = 0)
              /\ rdb.tasks[i].due_date # Null
              /\ DueDay(rdb.tasks[i]) = now}

(* ---------------------------------------------------------------------- *)
(* Quiz attempts                                                            *)
(* ---------------------------------------------------------------------- *)
\* What a review of attempt id reads: the parsed questions_data
Reviewed(d, id) == JsonLoads(GetQuizAttemptDetails(d, id, FALSE).row[2])

\* C17: the snapshot read back for a new attempt id is the one submitted,
\* question by question and field by field; a review returns what is
\* stored; and no step changes the stored row of an attempt.
C17_SnapshotRoundTrip ==
    /\ []((last.op = "add_quiz_attempt" /\ last.ok) =>
             /\ last.id \in DOMAIN rdb.quiz
             /\ Reviewed(rdb, last.id) = last.submitted)
    /\ []((last.op = "get_quiz_attempt_details" /\ last.ok) =>
             last.got = Reviewed(rdb, last.id))
    /\ [][\A id \in DOMAIN rdb.quiz :
             id \in DOMAIN rdb'.quiz /\ rdb'.quiz[id] = rdb.quiz[id]]_vars

\* The second attempt, of two questions, the first answered and the second
\* not, is reviewed while another attempt is stored
C17_Witness ==
    /\ last.op = "get_quiz_attempt_details"
    /\ last.ok
    /\ last.id = 2
    /\ Len(last.got) = 2
    /\ last.got[1].user_answer_index = PyInt(3)
    /\ last.got[2].user_answer_index = PyNone
    /\ rdb.quiz[1].questions_data # rdb.quiz[2].questions_data

(* ---------------------------------------------------------------------- *)
(* Chat history                                                             *)
(* ---------------------------------------------------------------------- *)
\* C18: get_chat_history(user, N) returns at most N messages, and from the
\* first to the last of them the timestamps never decrease.
C18_AtMostNInTimeOrder ==
    last.op = "get_chat_history" =>
       /\ Len(last.result) <= last.limit
       /\ \A i, j \in DOMAIN last.result :
             i < j => last.result[i][3] <= last.result[j][3]

\* More messages are stored than asked for, N are returned, and they are
\* not all of the same second
C18_Witness ==
    /\ last.op = "get_chat_history"
    /\ ~last.failed
    /\ last.limit > 1
    /\ Cardinality(MessagesOf(rdb, last.uid)) > last.limit
    /\ Len(last.result) = last.limit
    /\ last.result[1][3] < last.result[Len(last.result)][3]

\* The user's messages in the order they were appended
RECURSIVE Appended(_, _, _)
Appended(d, uid, i) ==
    IF i > Len(d.chat) THEN <<>>
    ELSE (IF d.chat[i].user_id = uid THEN <<ChatRow(d, i)>> ELSE <<>>)
            \o Appended(d, uid, i + 1)

\* C19: get_chat_history(user, N) returns the N messages of the user that
\* were appended last (all when there are fewer), in the order they were
\* appended, messages of the same second included.
C19_LastNInAppendOrder ==
    (last.op = "get_chat_history" /\ ~last.failed) =>
       LET all == Appended(rdb, last.uid, 1)
           n == IF last.limit < Len(all) THEN last.limit ELSE Len(all)
       IN last.result = SubSeq(all, Len(all) - n + 1, Len(all))

(* ---------------------------------------------------------------------- *)
(* Registration and login                                                   *)
(* ---------------------------------------------------------------------- *)
\* C20: once add_user(u, p) has succeeded, check_user(u, p) gives the new
\* user's (user_id, username) and check_user(u, q) gives None for every
\* other password q; check_user gives None for a username no users row
\* holds; a check_user the store answers returns just that; and no step
\* changes or removes a users row.
C20_CheckUserMatchesRegistration ==
    /\ []((last.op = "add_user" /\ last.ok) =>
             /\ CheckUser(rdb, last.u, last.p, FALSE).ok
             /\ CheckUser(rdb, last.u, last.p, FALSE).row = <<last.uid, last.u>>
             /\ \A q \in Passwords \ {last.p} : ~CheckUser(rdb, last.u, q, FALSE).ok)
    /\ [](\A u \in Usernames :
             (\A i \in UserIds(rdb) : rdb.users[i].username # u) =>
                \A q \in Passwords : ~CheckUser(rdb, u, q, FALSE).ok)
    /\ []((last.op = "check_user" /\ ~last.failed) =>
             /\ last.ok = CheckUser(rdb, last.u, last.p, FALSE).ok
             /\ last.row = CheckUser(rdb, last.u, last.p, FALSE).row)
    /\ [][\A i \in UserIds(rdb) :
             i \in UserIds(rdb') /\ rdb'.users[i] = rdb.users[i]]_vars

\* The second user registered logs in with the password of the registration
\* and gets their identity
C20_Witness ==
    /\ last.op = "check_user"
    /\ last.ok
    /\ last.row = <<2, "bob">>
    /\ last.p = "wrong"
    /\ rdb.users[1].password_hash = Sha256("secret1")

(* ---------------------------------------------------------------------- *)
(* Study streak                                                             *)
(* ---------------------------------------------------------------------- *)
\* C21: calculate_study_streak returns the length of the unbroken run of
\* days with a study log that ends today or, when today has no log, the
\* run that ends yesterday; 0 when neither day has a log; the first day
\* without a log ends the count.
C21_StreakIsRunEndingTodayOrYesterday ==
    last.op = "calculate_study_streak" =>
       LET logged == {DateOf(last.logs[i].start_time) : i \in DOMAIN last.logs}
           end == IF last.today \in logged THEN last.today ELSE last.today - 1
           run == {d \in logged : \A e \in d..end : e \in logged}
       IN last.streak = Cardinality(run)

\* Three logged days up to today, a day without a log before them and a
\* logged day before that: the streak is 3
C21_Witness ==
    /\ last.op = "calculate_study_streak"
    /\ last.streak = 3
    /\ Len(last.logs) = 4
    /\ DateOf(last.logs[1].start_time) = last.today
    /\ DateOf(last.logs[4].start_time) = last.today - 4

C23_AddTaskGuardAndDefault ==
    /\ [](\A t \in Threads :
             (thr[t].pc # "idle" /\ thr[t].q.k = "insert_task") => thr[t].q.uid # 0)
    /\ [][last' # last =>
             (last'.result = "None" /\ UNCHANGED <<db, mgr, conns, thr>>)]_vars
    /\ [](\A t \in Threads :
             (/\ thr[t].pc = "return"
              /\ thr[t].q.k = "insert_task"
              /\ ~thr[t].err
              /\ thr[t].q.given = "omitted")
                => db.tasks[conns[thr[t].res.cur].lastrowid].category = "General")

\* add_task without a category has stored a task, after an add_task without
\* a user returned None
C23_Witness ==
    /\ last.op = "add_task"
    /\ thr["main"].pc = "return"
    /\ thr["main"].q.k = "insert_task"
    /\ thr["main"].q.given = "omitted"
    /\ ~thr["main"].err
    /\ DOMAIN db.tasks = {1}

\* C24: add_user with a username that is registered returns None and
\* changes nothing: no users row is added, the registered user's
\* password_hash stays, and no category is stored.
C24_DuplicateUsernameChangesNothing ==
    [][(/\ last'.op = "add_user"
        /\ last.op = "none"
        /\ \E i \in UserIds(rdb) : rdb.users[i].username = last'.u)
          => (~last'.ok /\ rdb' = rdb)]_vars

\* add_user returned None for a registered username and another password
C24_Witness ==
    /\ last.op = "add_user"
    /\ ~last.ok
    /\ \E i \in UserIds(rdb) :
          /\ rdb.users[i].username = last.u
          /\ rdb.users[i].password_hash # Sha256(last.p)
          /\ \E c \in rdb.cats : c.user_id = i

(* ---------------------------------------------------------------------- *)
(* Config values                                                            *)
(* ---------------------------------------------------------------------- *)
\* C25: config holds at most one row per key, and a get_config_value the
\* store answers returns the value of the last set_config_value for that
\* key that returned a cursor, or None when there was none.
C25_ConfigIsLastSuccessfulSet ==
    /\ \A r1 \in rdb.config : \A r2 \in rdb.config : r1.key = r2.key => r1 = r2
    /\ (last.op = "get_config_value" /\ ~last.failed) =>
          IF last.key \in DOMAIN app
          THEN last.ok /\ last.value = app[last.key]
          ELSE ~last.ok

\* A value read back after it replaced another one, with both keys set
C25_Witness ==
    /\ last.op = "get_config_value"
    /\ last.ok
    /\ last.value = "key2"
    /\ Cardinality(rdb.config) = 2

(* ---------------------------------------------------------------------- *)
(* The fields of a stored task                                              *)
(* ---------------------------------------------------------------------- *)
\* The task list's add, toggle and delete and the settings' delete of a
\* category, one call at a time, and one midnight, so that tasks differ in
\* created_at
NextTasks ==
    \/ \E fault \in BOOLEAN : InEventLoop /\ AddTask(CurrentUserId, <<>>, fault)
    \/ \E tid \in 1..MaxTasks, readFault \in BOOLEAN, fault \in BOOLEAN :
          InEventLoop /\ ToggleTaskStatus(CurrentUserId, tid, readFault, fault)
    \/ \E tid \in 1..MaxTasks, readFault \in BOOLEAN, fault \in BOOLEAN :
          InEventLoop /\ RemoveTask(CurrentUserId, tid, readFault, fault)
    \/ \E name \in {"Academic", "General"}, fault \in BOOLEAN :
          InEventLoop /\ DeleteTaskCategoryBegin(CurrentUserId, name, fault)
    \/ \E fault \in BOOLEAN : DeleteTaskCategoryEnd(fault)
    \/ InEventLoop /\ now = 0 /\ DayPasses
    \/ BackToEventLoop

SpecTasks == InitCat /\ [][NextTasks]_vars

\* C26 as stated: no step changes the description, category, due date or
\* creation timestamp of a task that is stored before and after it.
C26_OnlyCompletedChanges ==
    [][\A i \in DOMAIN rdb.tasks \cap DOMAIN rdb'.tasks :
          /\ rdb'.tasks[i].description = rdb.tasks[i].description
          /\ rdb'.tasks[i].category = rdb.tasks[i].category
          /\ rdb'.tasks[i].due_date = rdb.tasks[i].due_date
          /\ rdb'.tasks[i].created_at = rdb.tasks[i].created_at]_vars

\* C26: no step changes the owner, description, due date or creation
\* timestamp of a stored task, and the only step that changes its category is
\* the UPDATE of delete_task_category, which sets the category of the caller's
\* tasks in the deleted category to "General".
C26_OnlyCompletedAndRetargetChange ==
    [][\A i \in DOMAIN rdb.tasks \cap DOMAIN rdb'.tasks :
          /\ rdb'.tasks[i].user_id = rdb.tasks[i].user_id
          /\ rdb'.tasks[i].description = rdb.tasks[i].description
          /\ rdb'.tasks[i].due_date = rdb.tasks[i].due_date
          /\ rdb'.tasks[i].created_at = rdb.tasks[i].created_at
          /\ rdb'.tasks[i].category # rdb.tasks[i].category =>
                /\ last'.op = "delete_task_category"
                /\ last'.pc = "retargeted"
                /\ rdb.tasks[i].user_id = last'.uid
                /\ rdb.tasks[i].category = last'.name
                /\ rdb'.tasks[i].category = "General"]_vars

\* delete_task_category returned after it moved a task to "General", with a
\* completed task and tasks of two creation days stored
C26_Witness ==
    /\ last.op = "delete_task_category"
    /\ last.pc = "returned"
    /\ last.had # {}
    /\ \A i \in last.had : i \in DOMAIN rdb.tasks /\ rdb.tasks[i].category = "General"
    /\ \E i \in DOMAIN rdb.tasks : rdb.tasks[i].completed = 1
    /\ \E i, j \in DOMAIN rdb.tasks : rdb.tasks[i].created_at # rdb.tasks[j].created_at

(* ---------------------------------------------------------------------- *)
(* The window: frames, the logged-in user, the API key, chat requests       *)
(* ---------------------------------------------------------------------- *)
\* ai_chat_history rows the chat requests may fill
MaxChatRows == 4

\* Keys of AIStudyAssistant.frames that are modelled
Frames == {"LoginPage", "RegisterPage", "MainPage", "SettingsFrame", "GeminiChatFrame"}

\* show_frame, were it to raise the page whoever asks
ShowFrameForAnyone(a, page_name) ==
    IF page_name \in Frames THEN [a EXCEPT !.frame = page_name] ELSE a

\* In the specifications of the window, app is a record: GEMINI_API_KEY the
\* module global, current_user_id the controller's (0 is None), frame the
\* frame raised last, pending the senders of the chat requests whose thread
\* has not answered, backup the files backup_database wrote (at most one).
\* show_frame, as a function of the record
RECURSIVE ShowFrame(_, _)
ShowFrame(a, page_name) ==
    IF a.current_user_id = 0 /\ page_name \notin {"LoginPage", "RegisterPage"}
    THEN ShowFrame(a, "LoginPage")
    ELSE IF page_name \in Frames THEN [a EXCEPT !.frame = page_name] ELSE a

\* A button or a caller asks for a page
ShowPage(page_name) ==
    /\ app' = ShowFrame(app, page_name)
    /\ last' = [op |-> "show_frame", page |-> page_name, uid |-> app.current_user_id]
    /\ UNCHANGED <<rdb, execVars, migVars, now>>

\* LoginPage.login -> check_user -> login_user
LoginPageLogin(u, p, fault) ==
    /\ app.frame = "LoginPage"
    /\ LET user == CheckUser(rdb, u, p, fault) IN
       /\ app' = IF user.ok
                 THEN ShowFrame([app EXCEPT !.current_user_id = user.row[1]], "MainPage")
                 ELSE app
       /\ last' = [op |-> "login", page |-> "MainPage", uid |-> app.current_user_id]
    /\ UNCHANGED <<rdb, execVars, migVars, now>>

\* logout_user
LogoutUser ==
    /\ app' = ShowFrame([app EXCEPT !.current_user_id = 0], "LoginPage")
    /\ last' = [op |-> "logout_user", page |-> "LoginPage", uid |-> app.current_user_id]
    /\ UNCHANGED <<rdb, execVars, migVars, now>>

\* SettingsFrame.save_api_key('GEMINI_API_KEY', key_value)
SaveApiKey(key_value, fault) ==
    /\ app.frame = "SettingsFrame"
    /\ IF key_value = ""
       THEN UNCHANGED <<rdb, app>>
       ELSE /\ rdb' = ExecuteQuery(rdb, [k |-> "upsert_config", key |-> "GEMINI_API_KEY",
                                         value |-> key_value], fault).db
            /\ app' = [app EXCEPT !.GEMINI_API_KEY = key_value]
    /\ last' = [op |-> "save_api_key", page |-> key_value, uid |-> app.current_user_id]
    /\ UNCHANGED <<execVars, migVars, now>>

\* SettingsFrame.backup_database: copy2 of the database file, or an exception
BackupDatabase(fault) ==
    /\ app.frame = "SettingsFrame"
    /\ app' = IF fault THEN app ELSE [app EXCEPT !.backup = <<rdb>>]
    /\ last' = [op |-> "backup_database", page |-> "", uid |-> app.current_user_id]
    /\ UNCHANGED <<rdb, execVars, migVars, now>>

\* SettingsFrame.restore_database: copy2 over the database file, then
\* logout_user; or an exception
RestoreDatabase(fault) ==
    /\ app.frame = "SettingsFrame"
    /\ app.backup # <<>>
    /\ IF fault
       THEN UNCHANGED <<rdb, app>>
       ELSE /\ rdb' = app.backup[1]
            /\ app' = ShowFrame([app EXCEPT !.current_user_id = 0], "LoginPage")
    /\ last' = [op |-> "restore_database", page |-> "", uid |-> app.current_user_id]
    /\ UNCHANGED <<execVars, migVars, now>>

\* GeminiChatFrame.send_chat_message, from the button or the Return key
SendChatMessage(readFault, fault) ==
    /\ app.frame = "GeminiChatFrame"
    /\ Len(rdb.chat) + Len(app.pending) + 2 <= MaxChatRows
    /\ LET gemini_api_key == IF app.GEMINI_API_KEY # "" THEN app.GEMINI_API_KEY
                             ELSE GetConfigValue(rdb, "GEMINI_API_KEY", readFault).value
       IN IF app.current_user_id = 0 \/ gemini_api_key = ""
          THEN UNCHANGED <<rdb, app>>
          ELSE /\ rdb' = ExecuteQuery(rdb, [k |-> "insert_chat", uid |-> app.current_user_id,
                                            role |-> "user", content |-> "hello",
                                            now |-> now], fault).db
               /\ app' = [app EXCEPT !.pending = Append(@, app.current_user_id)]
    /\ last' = [op |-> "send_chat_message", page |-> "", uid |-> app.current_user_id]
    /\ UNCHANGED <<execVars, migVars, now>>

\* GeminiChatFrame._get_gemini_response: the thread of request i gets its
\* answer (or an exception) and stores it
GetGeminiResponse(i, answered, fault) ==
    /\ i \in DOMAIN app.pending
    /\ LET res == ExecuteQuery(rdb, [k |-> "insert_chat", uid |-> app.current_user_id,
                                     role |-> "model", content |-> "answer",
                                     now |-> now], fault)
       IN /\ rdb' = IF answered THEN res.db ELSE rdb
          /\ last' = [op |-> "_get_gemini_response", page |-> "", uid |-> app.current_user_id,
                      sender |-> app.pending[i], stored |-> answered /\ res.ok]
    /\ app' = [app EXCEPT !.pending = [j \in 1..(Len(@) - 1) |->
                                          IF j < i THEN @[j] ELSE @[j + 1]]]
    /\ UNCHANGED <<execVars, migVars, now>>

\* alice and bob are registered and an earlier run saved a key; the window
\* shows LoginPage and the global is as line 15 leaves it
InitApp ==
    /\ rdb = [RunStatement(RunStatement(EmptyDb, InsertUser("alice", "secret1"), TRUE).db,
                           InsertUser("bob", "secret1"), TRUE).db
                EXCEPT !.config = {[key |-> "GEMINI_API_KEY", value |-> "key1"]}]
    /\ app = [GEMINI_API_KEY |-> "", current_user_id |-> 0, frame |-> "LoginPage",
              pending |-> <<>>, backup |-> <<>>]
    /\ last = NoCall
    /\ now = 0
    /\ OnlyRepo

\* Pages, login and logout, and the settings page's key and database buttons
NextApp ==
    \/ \E page_name \in Frames \cup {"DailyPlanFrame"} : ShowPage(page_name)
    \/ \E u \in Usernames, p \in Passwords, fault \in BOOLEAN : LoginPageLogin(u, p, fault)
    \/ LogoutUser
    \/ \E key_value \in {"", "key1", "key2"}, fault \in BOOLEAN : SaveApiKey(key_value, fault)
    \/ \E fault \in BOOLEAN : BackupDatabase(fault)
    \/ \E fault \in BOOLEAN : RestoreDatabase(fault)

SpecApp == InitApp /\ [][NextApp]_vars

\* Pages, login and logout, and the chat page's requests
NextChatRequests ==
    \/ \E page_name \in {"MainPage", "GeminiChatFrame"} : ShowPage(page_name)
    \/ \E u \in Usernames, fault \in BOOLEAN : LoginPageLogin(u, "secret1", fault)
    \/ LogoutUser
    \/ \E readFault \in BOOLEAN, fault \in BOOLEAN : SendChatMessage(readFault, fault)
    \/ \E i \in 1..MaxChatRows, answered \in BOOLEAN, fault \in BOOLEAN :
          GetGeminiResponse(i, answered, fault)

SpecChatRequests == InitApp /\ [][NextChatRequests]_vars

\* C27: whenever the global GEMINI_API_KEY is non-empty, config holds that
\* value under the key GEMINI_API_KEY.
C27_GlobalKeyIsPersistedKey ==
    app.GEMINI_API_KEY # "" =>
       /\ GetConfigValue(rdb, "GEMINI_API_KEY", FALSE).ok
       /\ GetConfigValue(rdb, "GEMINI_API_KEY", FALSE).value = app.GEMINI_API_KEY

\* C28: a "model" message _get_gemini_response stores is stored under the
\* user who sent the prompt of that request.
C28_AnswerStoredUnderSender ==
    (last.op = "_get_gemini_response" /\ last.stored) => last.uid = last.sender

\* C29: while no user is logged in the frame raised last is LoginPage or
\* RegisterPage; a show_frame for any other page while logged out ends with
\* LoginPage raised, and so does logout_user.
C29_LoggedOutShowsLoginOrRegister ==
    /\ app.current_user_id = 0 => app.frame \in {"LoginPage", "RegisterPage"}
    /\ (last.op = "show_frame" /\ last.uid = 0
           /\ last.page \notin {"LoginPage", "RegisterPage"}) => app.frame = "LoginPage"
    /\ last.op = "logout_user" => app.frame = "LoginPage" /\ app.current_user_id = 0

\* The settings page was open (a backup was made there), the user is logged
\* out again, and asked for the settings page
C29_Witness ==
    /\ last.op = "show_frame"
    /\ last.uid = 0
    /\ last.page = "SettingsFrame"
    /\ app.backup # <<>>
    /\ app.frame = "LoginPage"

(* ---------------------------------------------------------------------- *)
(* StudyTrackerFrame: the timer and its Pomodoro mode                       *)
(* ---------------------------------------------------------------------- *)
\* The clock (time.time(), in seconds) stops here
MaxClock == 6

\* In SpecTimer, app is the frame: timer_running, start_time (0 is None),
\* timer_id (0 is None, 1 an id after() returned), tick (Tk holds a
\* callback of update_timer_display that has neither run nor been
\* cancelled), pomodoro_mode, pomodoro_state, pomodoro_cycles_done, and the
\* two durations in seconds (the controller's IntVars * 60).
\* update_timer_display, were a break's expiry to count as a cycle too
UpdateTimerDisplayCountingBreaks(a, t) ==
    IF a.timer_running /\ a.start_time # 0
    THEN LET el_s == t - a.start_time
             curr_dur_s == IF a.pomodoro_state = "work" THEN a.work ELSE a.brk
             b == IF a.pomodoro_mode /\ curr_dur_s - el_s <= 0
                  THEN [a EXCEPT !.pomodoro_state = IF @ = "work" THEN "break" ELSE "work",
                                 !.pomodoro_cycles_done = @ + 1,
                                 !.start_time = t]
                  ELSE a
         IN [b EXCEPT !.timer_id = 1, !.tick = TRUE]
    ELSE a

\* update_timer_display at time t
UpdateTimerDisplay(a, t) ==
    IF a.timer_running /\ a.start_time # 0
    THEN LET el_s == t - a.start_time
             curr_dur_s == IF a.pomodoro_state = "work" THEN a.work ELSE a.brk
             b == IF a.pomodoro_mode /\ curr_dur_s - el_s <= 0
                  THEN IF a.pomodoro_state = "work"
                       THEN [a EXCEPT !.pomodoro_state = "break",
                                      !.pomodoro_cycles_done = @ + 1,
                                      !.start_time = t]
                       ELSE [a EXCEPT !.pomodoro_state = "work", !.start_time = t]
                  ELSE a
         IN [b EXCEPT !.timer_id = 1, !.tick = TRUE]
    ELSE a

\* toggle_timer at time t
ToggleTimer(a, t) ==
    IF a.timer_running
    THEN IF a.timer_id # 0
         THEN [a EXCEPT !.timer_running = FALSE, !.tick = FALSE, !.timer_id = 0]
         ELSE [a EXCEPT !.timer_running = FALSE]
    ELSE UpdateTimerDisplay([a EXCEPT !.timer_running = TRUE, !.start_time = t,
                                      !.pomodoro_state = IF a.pomodoro_mode THEN "work" ELSE @],
                            t)

\* reset_timer at time t
ResetTimer(a, t) ==
    [(IF a.timer_running THEN ToggleTimer(a, t) ELSE a)
       EXCEPT !.start_time = 0, !.pomodoro_cycles_done = 0, !.pomodoro_state = "work"]

\* The Start/Stop button
ToggleTimerClicked ==
    /\ app' = ToggleTimer(app, now)
    /\ last' = [op |-> "toggle_timer"]
    /\ UNCHANGED <<rdb, execVars, migVars, now>>

\* The Reset button (and log_session after a stored log)
ResetTimerClicked ==
    /\ app' = ResetTimer(app, now)
    /\ last' = [op |-> "reset_timer"]
    /\ UNCHANGED <<rdb, execVars, migVars, now>>

\* toggle_pomodoro_mode_ui: the checkbutton changed the mode (changed), or
\* refresh_data calls it with the mode as it is
TogglePomodoroModeUi(changed) ==
    /\ app' = ResetTimer([app EXCEPT !.pomodoro_mode = IF changed THEN ~@ ELSE @], now)
    /\ last' = [op |-> "toggle_pomodoro_mode_ui"]
    /\ UNCHANGED <<rdb, execVars, migVars, now>>

\* Tk runs the callback after(1000, self.update_timer_display) registered
TimerFires ==
    /\ app.tick
    /\ app' = UpdateTimerDisplay([app EXCEPT !.tick = FALSE], now)
    /\ last' = [op |-> "update_timer_display"]
    /\ UNCHANGED <<rdb, execVars, migVars, now>>

\* A second passes
SecondPasses ==
    /\ now < MaxClock
    /\ now' = now + 1
    /\ last' = NoCall
    /\ UNCHANGED <<rdb, execVars, migVars, app>>

InitTimer ==
    /\ \E work \in 1..2, brk \in 1..2 :
          app = [timer_running |-> FALSE, start_time |-> 0, timer_id |-> 0, tick |-> FALSE,
                 pomodoro_mode |-> FALSE, pomodoro_state |-> "work",
                 pomodoro_cycles_done |-> 0, work |-> work, brk |-> brk]
    /\ rdb = EmptyDb
    /\ last = NoCall
    /\ now = 1
    /\ OnlyRepo

NextTimer ==
    \/ ToggleTimerClicked
    \/ ResetTimerClicked
    \/ \E changed \in BOOLEAN : TogglePomodoroModeUi(changed)
    \/ TimerFires
    \/ SecondPasses

SpecTimer == InitTimer /\ [][NextTimer]_vars

\* C30: in Pomodoro mode a start begins with the phase "work"; a run of
\* update_timer_display that finds the phase expired turns work into break and
\* adds one to pomodoro_cycles_done, or turns break into work and leaves the
\* count, and one that finds it not expired changes neither; after reset_timer
\* the timer is stopped, no tick callback is pending, the phase is "work" and
\* the count is 0.
C30_PomodoroAlternatesAndResets ==
    /\ [][(last'.op = "update_timer_display" /\ app.pomodoro_mode /\ app.timer_running) =>
             LET expired == now - app.start_time >=
                               (IF app.pomodoro_state = "work" THEN app.work ELSE app.brk)
             IN /\ (expired /\ app.pomodoro_state = "work") =>
                      /\ app'.pomodoro_state = "break"
                      /\ app'.pomodoro_cycles_done = app.pomodoro_cycles_done + 1
                /\ (expired /\ app.pomodoro_state = "break") =>
                      /\ app'.pomodoro_state = "work"
                      /\ app'.pomodoro_cycles_done = app.pomodoro_cycles_done
                /\ ~expired =>
                      /\ app'.pomodoro_state = app.pomodoro_state
                      /\ app'.pomodoro_cycles_done = app.pomodoro_cycles_done]_vars
    /\ [][(last'.op = "toggle_timer" /\ app.pomodoro_mode /\ ~app.timer_running) =>
             /\ app'.timer_running
             /\ app'.pomodoro_state = "work"
             /\ app'.pomodoro_cycles_done = app.pomodoro_cycles_done]_vars
    /\ [](last.op = "reset_timer" =>
             /\ ~app.timer_running
             /\ ~app.tick
             /\ app.timer_id = 0
             /\ app.pomodoro_state = "work"
             /\ app.pomodoro_cycles_done = 0)

\* The second work phase of a run has just expired
C30_Witness ==
    /\ last.op = "update_timer_display"
    /\ app.pomodoro_mode
    /\ app.timer_running
    /\ app.pomodoro_state = "break"
    /\ app.pomodoro_cycles_done = 2

=============================================================================
